---- MODULE Spec2Model ----
(***************************************************************************)
(* The Airtable REST client of src/data/airtable_client.py: one logical    *)
(* request (_request) with its bounded retry loop, and the record          *)
(* operations built on it (get_records, update_record, create_record,      *)
(* batch_update).                                                          *)
(*                                                                         *)
(* Python dicts are functions with a string domain (<<>> is the empty      *)
(* dict), Python lists are sequences, None is the value None below.        *)
(* The variables tries, sleeps, outcomes, wire, served, applied, calls,     *)
(* sent and spent are history variables: they record what the code did     *)
(* (calls of requests.request and time.sleep, responses received) and what *)
(* the store applied. No action of the code reads them; the server's       *)
(* answers depend on the pages it has served.                              *)
(***************************************************************************)
EXTENDS Integers, Sequences, FiniteSets, TLC

\* ------------------------------------------------------------------------
\* Program constants (src/data/airtable_client.py, lines 22-24)
MAX_RETRIES == 5
BACKOFF_SECONDS == 2
PAGE_SIZE == 100

\* ------------------------------------------------------------------------
\* Bounds of the model
\* The server's result set has at most MaxPages pages.
MaxPages == 3
\* batch_update is called with at most MaxUpdates entries.
MaxUpdates == 23
\* Where several calls or the store's history are followed, batch_update is
\* called with FewUpdates entries.
FewUpdates == 11

None == "None"
API_BASE_URL == "https://api.airtable.com/v0"
\* The empty dict; also stands for a dict argument left at None (params=None,
\* json=None), which requests.request treats as absent.
NoDict == <<>>
TABLE == "Top Leads"

\* Status codes the modelled server may answer with.
StatusCodes == {100, 200, 201, 300, 401, 404, 429, 499, 503, 600}
\* Values of the Retry-After header (seconds, section 6 of the spec).
RetryAfterValues == {"1", "3"}
RecordIds == {"recA", "recB"}
Cursors == {"itrA", "itrB"}

\* dict.get(key, default)
Get(d, k, default) == IF k \in DOMAIN d THEN d[k] ELSE default

\* Python truthiness of an Optional[str]
Truthy(x) == x # None /\ x # ""

\* float() of a decimal header value
DecimalValue == ("0" :> 0) @@ ("1" :> 1) @@ ("3" :> 3)
Float(s) == DecimalValue[s]

\* ------------------------------------------------------------------------
\* Inputs of the record operations and answers of the server

\* get_records arguments (fields = <<>> stands for None or an empty list, both
\* falsy at line 122)
Queries ==
    { [view |-> None, filter_formula |-> None, fields |-> <<>>, page_size |-> PAGE_SIZE],
      [view |-> "Grid view", filter_formula |-> None, fields |-> <<"Name">>, page_size |-> 10],
      [view |-> None, filter_formula |-> "{Status}='New'", fields |-> <<>>, page_size |-> 10] }

FieldMaps == { [Status |-> "Scored"] }

\* JSON bodies of 2xx answers to a write
WriteBodies == { [id |-> i, fields |-> f] : i \in RecordIds, f \in FieldMaps }

\* JSON body of an answer that is not 2xx
ErrorBody == [error |-> "ERROR"]

\* Record lists one page may carry
PageRecords == { <<>>, <<"recA">>, <<"recA", "recB">> }

\* JSON bodies of 2xx answers to a list request: a page without a cursor (the
\* last one; it may lack the records key too), with one,
\* or an empty one (which line 135 takes for none)
LastPages ==
    { [records |-> rs] : rs \in PageRecords }
    \cup { NoDict, [records |-> <<"recA">>, offset |-> ""] }
CursorPages == { [records |-> rs, offset |-> c] : rs \in PageRecords, c \in Cursors }

\* Response headers: Retry-After present or not. A 429 may carry any of the
\* values, a 503 the largest, other answers none.
HeaderSets(status) ==
    { NoDict }
    \cup (IF status = 429 THEN { ("Retry-After" :> v) : v \in RetryAfterValues } ELSE {})
    \cup (IF status = 503 THEN { ("Retry-After" :> "3") } ELSE {})

\* urllib.parse.quote(table_name, safe="") on the table names used
Quote(name) == IF name = "Top Leads" THEN "Top%20Leads" ELSE name

\* The query parameters get_records builds once (lines 117-123)
Params(q) ==
    ("pageSize" :> q.page_size)
    @@ (IF Truthy(q.view) THEN ("view" :> q.view) ELSE NoDict)
    @@ (IF Truthy(q.filter_formula) THEN ("filterByFormula" :> q.filter_formula) ELSE NoDict)
    @@ (IF q.fields # <<>> THEN ("fields[]" :> q.fields) ELSE NoDict)

\* Mutant of LoopParams: the cursor is not sent
LoopParams_NoCursor(prm, off) == prm

\* loop_params of one page request (lines 129-131)
LoopParams(prm, off) ==
    IF Truthy(off) THEN ("offset" :> off) @@ prm ELSE prm

\* _url (lines 46-50): the path components of the url, base being BASE_ID
Url(base, table_name, suffix) ==
    IF suffix # "" THEN <<API_BASE_URL, base, Quote(table_name), suffix>>
    ELSE <<API_BASE_URL, base, Quote(table_name)>>

\* Mutant of MissingCredentials: only the key is looked at
MissingCredentials_KeyOnly(key, base) == ~Truthy(key)

\* _headers raises when a credential is unset or empty (line 36)
MissingCredentials(key, base) == ~Truthy(key) \/ ~Truthy(base)

\* Mutant of Retrying: an off-by-one loop condition
Retrying_OffByOne(a) == a <= MAX_RETRIES

\* while attempt < MAX_RETRIES (line 64)
Retrying(a) == a < MAX_RETRIES

\* Mutant of FreshAttempt: the counter outlives the logical request
FreshAttempt_Carried(prev) == prev

\* attempt = 0 at the start of every _request (line 63); prev is the counter
\* value the previous logical request left behind
FreshAttempt(prev) == 0

\* Mutant of Classify: every status from 400 up but 429 is retried
Classify_Retry4xx(status) ==
    IF status = 429 THEN "rate_limited"
    ELSE IF 400 <= status /\ status < 600 THEN "server_error"
    ELSE IF 200 <= status /\ status < 300 THEN "success"
    ELSE "terminal"

\* Mutant of Classify: a 3xx status counts as success
Classify_RedirectSuccess(status) ==
    IF status = 429 THEN "rate_limited"
    ELSE IF 500 <= status /\ status < 600 THEN "server_error"
    ELSE IF 200 <= status /\ status < 400 THEN "success"
    ELSE "terminal"

\* The if-chain on response.status_code (lines 80, 87, 99, 102)
Classify(status) ==
    IF status = 429 THEN "rate_limited"
    ELSE IF 500 <= status /\ status < 600 THEN "server_error"
    ELSE IF 200 <= status /\ status < 300 THEN "success"
    ELSE "terminal"

\* Mutant of RetryAfter: the header is ignored
RetryAfter_IgnoreHeader(headers) == BACKOFF_SECONDS

\* float(response.headers.get("Retry-After", BACKOFF_SECONDS)) (line 81)
RetryAfter(headers) ==
    IF "Retry-After" \in DOMAIN headers THEN Float(headers["Retry-After"])
    ELSE BACKOFF_SECONDS

\* Mutant of RateLimitAttempt: a 429 does not consume the budget
RateLimitAttempt_Free(a) == a

\* attempt += 1 after the rate-limit sleep (line 84)
RateLimitAttempt(a) == a + 1

\* Mutant of Backoff: exponential instead of linear
Backoff_Exponential(a) == BACKOFF_SECONDS * (2 ^ (a - 1))

\* BACKOFF_SECONDS * attempt, attempt already incremented (lines 77, 96)
Backoff(a) == BACKOFF_SECONDS * a

\* The exceptions the client raises
NoError == [type |-> "none", text |-> "", status |-> 0]
AuthError ==
    [type |-> "AirtableAuthenticationError",
     text |-> "AIRTABLE_API_KEY and AIRTABLE_BASE_ID must be set in the environment.",
     status |-> 0]
StatusError(status) ==
    [type |-> "AirtableError", text |-> "Airtable responded with", status |-> status]
ExhaustedError ==
    [type |-> "AirtableError", text |-> "Exceeded retry budget for Airtable request",
     status |-> 0]

\* What one transport attempt ended in: an exception of requests, or a response
Exception == [exc |-> TRUE, status |-> 0, headers |-> NoDict, body |-> NoDict]
Answer(r) == [exc |-> FALSE, status |-> r.status, headers |-> r.headers, body |-> r.body]

\* ------------------------------------------------------------------------
\* State
VARIABLES
    API_KEY,    \* module global (line 18)
    BASE_ID,    \* module global (line 19)
    op,         \* the record operation called
    pc,         \* control point: idle, page, loop, got, returned, raised
    query,      \* get_records: its arguments
    params,     \* get_records: params
    records,    \* get_records: records
    offset,     \* get_records: offset
    updates,    \* batch_update: the entries of updates not yet iterated over
    chunk,      \* batch_update: chunk
    results,    \* batch_update: results
    req,        \* _request: its arguments and url
    attempt,    \* _request: attempt
    response,   \* the parsed body _request returned to the operation
    result,     \* <<v>> once the operation returned v to its caller
    error,      \* the exception the operation raised
    tries,      \* history: requests.request calls of this logical request
    sleeps,     \* history: time.sleep durations of this logical request
    outcomes,   \* history: how each transport attempt of this request ended
    wire,       \* history: the request last put on the wire
    served,     \* history: the 2xx bodies the server answered the requests of
                \* get_records and batch_update with
    applied,    \* history: the payloads of the writes the store applied
    calls,      \* history: logical requests (_request calls) of the operation
    sent,       \* history: the payload of each of these logical requests
    spent,      \* history: transport attempts of the operation's earlier requests
    given,      \* batch_update: its updates argument
    cancelled,  \* the caller of the operation has signalled cancellation
    other,      \* the call frame of a second caller while it is not running
    agent,      \* the agent whose batch run is in progress
    apc,        \* the position of the agent's batch run
    limit,      \* the batch run's limit argument: <<>> for None
    fetched,    \* the records the batch run has still to process
    record,     \* the record _process_record is called with
    agent_results,\* the batch run's results list
    written,    \* history: how the update_record call of each result ended
    listed,     \* history: the records get_records returned to the batch run
    task,       \* select_model: its task argument
    input_text, \* select_model: its input_text argument
    max_input_length, \* select_model: its max_input_length argument
    selected,   \* select_model: what it returned, <<>> before it has
    http,       \* history: the requests the test client made and their answers
    log,        \* the interactions LOGGER has written
    registry,   \* AIRouter.registry: the handler of each registered agent
    triggers,   \* AIRouter.triggers
    queue,      \* AIRouter.queue, oldest task first
    rpc,        \* the position of AIRouter.run
    enqueued,   \* history: the tasks added to the queue, in the order of the add calls
    popped,     \* history: the tasks popped by run, with what their iteration did
    chain,      \* history: the tasks given to build_chain
    jobs,       \* ScheduleManager.jobs: interval and next_run in minutes
    clock,      \* datetime.utcnow(), in minutes
    runs,       \* history: the calls of the jobs' functions
    pendings,   \* history: now of each run_pending call
    adds        \* history: the add_cron_job calls and how they ended

vars == <<API_KEY, BASE_ID, op, pc, query, params, records, offset, updates, chunk,
          results, req, attempt,
          response, result, error, tries, sleeps, outcomes, wire, served, applied,
          calls, sent, spent, given, cancelled, other,
          agent, apc, limit, fetched, record, agent_results, written, listed,
          task, input_text, max_input_length, selected,
          http, log,
          registry, triggers, queue, rpc, enqueued, popped, chain,
          jobs, clock, runs, pendings, adds>>

config == <<API_KEY, BASE_ID>>
pageLocals == <<query, params, records, offset>>
batchLocals == <<updates, chunk, results>>
locals == <<pageLocals, batchLocals>>
history == <<tries, sleeps, outcomes, wire>>
aux == <<given, cancelled, other>>

\* The state of the components other than the Airtable client
batchRun == <<agent, apc, limit, fetched, record, agent_results, written, listed>>
selection == <<task, input_text, max_input_length, selected>>
webapp == <<http, log>>
router == <<registry, triggers, queue, rpc, enqueued, popped, chain>>
scheduler == <<jobs, clock, runs, pendings, adds>>
elsewhere == <<batchRun, selection, webapp, router, scheduler>>
apartBatchRun == <<selection, webapp, router, scheduler>>
apartSelection == <<batchRun, webapp, router, scheduler>>
apartWebapp == <<batchRun, selection, router, scheduler>>
apartRouter == <<batchRun, selection, webapp, scheduler>>
apartScheduler == <<batchRun, selection, webapp, router>>

\* The Airtable client's state
client == <<config, op, pc, locals, req, attempt, response, result, error, history,
            served, applied, calls, sent, spent, aux>>

Credentials == {None, "", "set"}

\* The components other than the Airtable client before any of their
\* operations is called
BatchRunInit ==
    /\ agent = "none"
    /\ apc = "idle"
    /\ limit = <<>>
    /\ fetched = <<>>
    /\ record = NoDict
    /\ agent_results = <<>>
    /\ written = <<>>
    /\ listed = <<>>

SelectionInit ==
    /\ task = None
    /\ input_text = None
    /\ max_input_length = 0
    /\ selected = <<>>

WebappInit ==
    /\ http = <<>>
    /\ log = <<>>

RouterInit ==
    /\ registry = NoDict
    /\ triggers = <<>>
    /\ queue = <<>>
    /\ rpc = "idle"
    /\ enqueued = <<>>
    /\ popped = <<>>
    /\ chain = <<>>

SchedulerInit ==
    /\ jobs = <<>>
    /\ clock = 0
    /\ runs = <<>>
    /\ pendings = <<>>
    /\ adds = <<>>

ElsewhereInit ==
    /\ BatchRunInit
    /\ SelectionInit
    /\ WebappInit
    /\ RouterInit
    /\ SchedulerInit

\* The Airtable client before any operation is called
ClientInit ==
    /\ API_KEY \in Credentials
    /\ BASE_ID \in Credentials
    /\ op = "none"
    /\ pc = "idle"
    /\ query = NoDict
    /\ params = NoDict
    /\ records = <<>>
    /\ offset = None
    /\ updates = <<>>
    /\ chunk = <<>>
    /\ results = <<>>
    /\ req = NoDict
    /\ attempt = 0
    /\ response = NoDict
    /\ result = <<>>
    /\ error = NoError
    /\ tries = 0
    /\ sleeps = <<>>
    /\ outcomes = <<>>
    /\ wire = NoDict
    /\ served = <<>>
    /\ applied = <<>>
    /\ calls = 0
    /\ sent = <<>>
    /\ spent = 0
    /\ given = <<>>
    /\ cancelled = FALSE
    /\ other = NoDict

Init ==
    /\ ClientInit
    /\ ElsewhereInit

\* ------------------------------------------------------------------------
\* _request (lines 53-106)

\* Entry of _request: url and headers are built, then attempt = 0 (lines
\* 61-63). _headers raises before the loop when a credential is missing.
EnterRequest(method, record_id, prm, payload) ==
    /\ req' = [method |-> method,
               url |-> IF Truthy(record_id) THEN Url(BASE_ID, TABLE, record_id)
                       ELSE Url(BASE_ID, TABLE, ""),
               params |-> prm,
               payload |-> payload]
    /\ IF MissingCredentials(API_KEY, BASE_ID)
       THEN /\ pc' = "raised"
            /\ error' = AuthError
            /\ UNCHANGED attempt
       ELSE /\ pc' = "loop"
            /\ attempt' = FreshAttempt(attempt)
            /\ UNCHANGED error
    /\ calls' = calls + 1
    /\ sent' = Append(sent, payload)
    /\ spent' = spent + tries
    /\ tries' = 0
    /\ sleeps' = <<>>
    /\ outcomes' = <<>>
    /\ wire' = NoDict

\* One more requests.request call with the unchanged arguments (lines 66-73)
Transmit(outcome) ==
    /\ pc = "loop"
    /\ Retrying(attempt)
    /\ tries' = tries + 1
    /\ wire' = req
    /\ outcomes' = Append(outcomes, outcome)

\* requests.RequestException (lines 74-78)
request_exception ==
    /\ Transmit(Exception)
    /\ attempt' = attempt + 1
    /\ sleeps' = Append(sleeps, Backoff(attempt'))
    /\ UNCHANGED <<config, elsewhere, aux, op, pc, locals, req, response, result, error, served,
                   applied, calls, sent, spent>>

\* requests.RequestException (lines 74-78) raised for a request the server
\* received and applied: the answer was lost or came after the timeout of
\* line 72
request_exception_applied ==
    /\ Transmit(Exception)
    /\ attempt' = attempt + 1
    /\ sleeps' = Append(sleeps, Backoff(attempt'))
    /\ applied' = IF req.method # "GET" THEN Append(applied, req.payload) ELSE applied
    /\ UNCHANGED <<config, elsewhere, aux, op, pc, locals, req, response, result, error, served,
                   calls, sent, spent>>

\* status 429 (lines 80-85)
request_rate_limited(r) ==
    /\ Classify(r.status) = "rate_limited"
    /\ Transmit(Answer(r))
    /\ sleeps' = Append(sleeps, RetryAfter(r.headers))
    /\ attempt' = RateLimitAttempt(attempt)
    /\ UNCHANGED <<config, elsewhere, aux, op, pc, locals, req, response, result, error, served,
                   applied, calls, sent, spent>>

\* Mutant of request_server_error: a 5xx answer does not count as an attempt
request_server_error_Free(r) ==
    /\ Classify(r.status) = "server_error"
    /\ Transmit(Answer(r))
    /\ sleeps' = Append(sleeps, Backoff(attempt + 1))
    /\ UNCHANGED <<config, elsewhere, aux, op, pc, locals, req, attempt, response, result, error,
                   served, applied, calls, sent, spent>>

\* status 500-599 (lines 87-97)
request_server_error(r) ==
    /\ Classify(r.status) = "server_error"
    /\ Transmit(Answer(r))
    /\ attempt' = attempt + 1
    /\ sleeps' = Append(sleeps, Backoff(attempt'))
    /\ UNCHANGED <<config, elsewhere, aux, op, pc, locals, req, response, result, error, served,
                   applied, calls, sent, spent>>

\* Mutant of request_success: the body handed over is that of the first
\* attempt of the request
request_success_Stale(r) ==
    /\ Classify(r.status) = "success"
    /\ Transmit(Answer(r))
    /\ response' = IF outcomes = <<>> THEN r.body ELSE outcomes[1].body
    /\ pc' = "got"
    /\ served' = IF op \in {"get_records", "batch_update"} THEN Append(served, r.body)
                 ELSE served
    /\ applied' = IF req.method # "GET" THEN Append(applied, req.payload) ELSE applied
    /\ UNCHANGED <<config, elsewhere, aux, op, locals, req, attempt, result, error, sleeps, calls,
                   sent, spent>>

\* status 200-299: return response.json() (lines 99-100)
request_success(r) ==
    /\ Classify(r.status) = "success"
    /\ Transmit(Answer(r))
    /\ response' = r.body
    /\ pc' = "got"
    /\ served' = IF op \in {"get_records", "batch_update"} THEN Append(served, r.body)
                 ELSE served
    /\ applied' = IF req.method # "GET" THEN Append(applied, req.payload) ELSE applied
    /\ UNCHANGED <<config, elsewhere, aux, op, locals, req, attempt, result, error, sleeps, calls,
                   sent, spent>>

\* Mutant of request_terminal: the failed request counts as answered and the
\* operation goes on
request_terminal_Skipped(r) ==
    /\ Classify(r.status) = "terminal"
    /\ Transmit(Answer(r))
    /\ response' = r.body
    /\ pc' = "got"
    /\ UNCHANGED <<config, elsewhere, aux, op, locals, req, attempt, result, error, sleeps, served,
                   applied, calls, sent, spent>>

\* any other status: raise AirtableError (lines 102-104)
request_terminal(r) ==
    /\ Classify(r.status) = "terminal"
    /\ Transmit(Answer(r))
    /\ error' = StatusError(r.status)
    /\ pc' = "raised"
    /\ UNCHANGED <<config, elsewhere, aux, op, locals, req, attempt, response, result, sleeps, served,
                   applied, calls, sent, spent>>

\* Mutant of request_exhausted: the failure is swallowed and get_records
\* returns what it has accumulated
request_exhausted_Swallowed ==
    /\ pc = "loop"
    /\ ~Retrying(attempt)
    /\ result' = <<records>>
    /\ pc' = "returned"
    /\ UNCHANGED <<config, elsewhere, aux, op, locals, req, attempt, response, error, history, served, applied,
                   calls, sent, spent>>

\* the loop condition fails: raise AirtableError (line 106)
request_exhausted ==
    /\ pc = "loop"
    /\ ~Retrying(attempt)
    /\ error' = ExhaustedError
    /\ pc' = "raised"
    /\ UNCHANGED <<config, elsewhere, aux, op, locals, req, attempt, response, result, history,
                   served, applied, calls, sent, spent>>

\* ------------------------------------------------------------------------
\* update_record (lines 141-146) and create_record (lines 149-154)

update_record(record_id, fields) ==
    /\ pc = "idle"
    /\ op' = "update_record"
    /\ EnterRequest("PATCH", record_id, NoDict, [fields |-> fields])
    /\ UNCHANGED <<config, elsewhere, aux, locals, response, result, served, applied>>

create_record(fields) ==
    /\ pc = "idle"
    /\ op' = "create_record"
    /\ EnterRequest("POST", None, NoDict, [fields |-> fields])
    /\ UNCHANGED <<config, elsewhere, aux, locals, response, result, served, applied>>

\* return response (lines 146, 154)
write_return ==
    /\ pc = "got"
    /\ op \in {"update_record", "create_record"}
    /\ result' = <<response>>
    /\ pc' = "returned"
    /\ UNCHANGED <<config, elsewhere, aux, op, locals, req, attempt, response, error, history, served,
                   applied, calls, sent, spent>>

\* ------------------------------------------------------------------------
\* get_records (lines 109-138)

\* lines 117-126
get_records(q) ==
    /\ pc = "idle"
    /\ op' = "get_records"
    /\ query' = q
    /\ params' = Params(q)
    /\ records' = <<>>
    /\ offset' = None
    /\ pc' = "page"
    /\ UNCHANGED <<config, elsewhere, aux, batchLocals, req, attempt, response, result, error, history,
                   served, applied, calls, sent, spent>>

\* top of the while True loop: loop_params and the call of _request
\* (lines 129-132)
get_records_page ==
    /\ pc = "page"
    /\ EnterRequest("GET", None, LoopParams(params, offset), NoDict)
    /\ UNCHANGED <<config, elsewhere, aux, op, locals, response, result, served, applied>>

\* Mutant of Extend: records already accumulated are not added again
Extend_Dedup(recs, body) ==
    recs \o SelectSeq(Get(body, "records", <<>>),
                      LAMBDA x : \A i \in 1..Len(recs) : recs[i] # x)

\* records.extend(response.get("records", [])) (line 133)
Extend(recs, body) == recs \o Get(body, "records", <<>>)

\* offset = response.get("offset") (line 134)
NextOffset(body) == Get(body, "offset", None)

\* Mutant of LastPage: paging also stops after two pages
LastPage_Capped(off) == ~Truthy(off) \/ Len(served) >= 2

\* if not offset: break (line 135)
LastPage(off) == ~Truthy(off)

\* _request returned a page (lines 133-138)
get_records_got ==
    /\ pc = "got"
    /\ op = "get_records"
    /\ records' = Extend(records, response)
    /\ offset' = NextOffset(response)
    /\ IF LastPage(offset')
       THEN /\ result' = <<records'>>
            /\ pc' = "returned"
       ELSE /\ pc' = "page"
            /\ UNCHANGED result
    /\ UNCHANGED <<config, elsewhere, aux, op, query, params, batchLocals, req, attempt, response, error,
                   history, served, applied, calls, sent, spent>>

\* ------------------------------------------------------------------------
\* batch_update (lines 157-175)

\* The update entry of the k-th record
Update(k) == [id |-> k, fields |-> [Status |-> "Scored"]]

\* The updates argument: entries for records 1..m
Updates(m) == [k \in 1..m |-> Update(k)]

\* The length at which a chunk is dispatched (line 163)
ChunkSize == 10

RECURSIVE Fill_Overfull(_, _)
\* Mutant of Fill: a chunk is dispatched one entry late
Fill_Overfull(c, rest) ==
    IF rest = <<>> \/ Len(c) = ChunkSize + 1 THEN [chunk |-> c, rest |-> rest]
    ELSE Fill_Overfull(Append(c, Head(rest)), Tail(rest))

RECURSIVE Fill(_, _)
\* The for loop up to its next dispatch or its end (lines 161-163): entries are
\* appended to chunk until it holds 10 or the input is used up
Fill(c, rest) ==
    IF rest = <<>> \/ Len(c) = ChunkSize THEN [chunk |-> c, rest |-> rest]
    ELSE Fill(Append(c, Head(rest)), Tail(rest))

\* lines 159-160
batch_update(u) ==
    /\ pc = "idle"
    /\ op' = "batch_update"
    /\ given' = u
    /\ updates' = u
    /\ results' = <<>>
    /\ chunk' = <<>>
    /\ pc' = "fill"
    /\ UNCHANGED <<config, elsewhere, cancelled, other, pageLocals, req, attempt, response, result,
                   error, history, served, applied, calls, sent, spent>>

\* The for loop runs to the next full chunk, which is dispatched (line 164), or
\* to its end, where a non-empty chunk is dispatched (lines 166-167) and with
\* an empty one results is returned (lines 168-169)
batch_fill ==
    /\ pc = "fill"
    /\ LET f == Fill(chunk, updates) IN
       /\ chunk' = f.chunk
       /\ updates' = f.rest
       /\ IF f.chunk # <<>>
          THEN /\ EnterRequest("PATCH", None, NoDict, [records |-> f.chunk])
               /\ UNCHANGED result
          ELSE /\ result' = <<results>>
               /\ pc' = "returned"
               /\ UNCHANGED <<req, attempt, error, history, calls, sent, spent>>
    /\ UNCHANGED <<config, elsewhere, aux, op, pageLocals, results, response, served, applied>>

\* _dispatch_batch returns response.get("records", []) (line 175), results is
\* extended with it; after a dispatch from inside the loop chunk is reset and
\* the loop goes on (lines 164-165), after the dispatch of the last, shorter
\* chunk results is returned (lines 167-169)
batch_got ==
    /\ pc = "got"
    /\ op = "batch_update"
    /\ results' = results \o Get(response, "records", <<>>)
    /\ IF Len(chunk) = ChunkSize
       THEN /\ chunk' = <<>>
            /\ pc' = "fill"
            /\ UNCHANGED result
       ELSE /\ result' = <<results'>>
            /\ pc' = "returned"
            /\ UNCHANGED chunk
    /\ UNCHANGED <<config, elsewhere, aux, op, pageLocals, updates, req, attempt, response, error,
                   history, served, applied, calls, sent, spent>>

\* ------------------------------------------------------------------------
\* The server

\* Answers to a write (update_record, create_record)
WriteResponses ==
    UNION { { [status |-> s, headers |-> h, body |-> b] :
                h \in HeaderSets(s),
                b \in IF 200 <= s /\ s < 300 THEN WriteBodies ELSE { ErrorBody } } :
            s \in StatusCodes }

\* Statuses of the answers to a list request and to the PATCH of a chunk (sent
\* without Retry-After)
PageStatusCodes == {200, 404, 503}

\* Answers to a list request once n pages were served: the server hands out a
\* cursor only while the result set has a further page
PageResponses(n) ==
    UNION { { [status |-> s, headers |-> NoDict, body |-> b] :
                b \in IF s # 200 THEN { ErrorBody }
                      ELSE IF n + 1 < MaxPages THEN LastPages \cup CursorPages
                      ELSE LastPages } :
            s \in PageStatusCodes }

\* One step of _request on answer r
Respond(r) ==
    \/ request_rate_limited(r)
    \/ request_server_error(r)
    \/ request_success(r)
    \/ request_terminal(r)

\* A single write operation
Next ==
    \/ \E i \in RecordIds, f \in FieldMaps : update_record(i, f)
    \/ \E f \in FieldMaps : create_record(f)
    \/ request_exception
    \/ \E r \in WriteResponses : Respond(r)
    \/ request_exhausted
    \/ write_return

Spec == Init /\ [][Next]_vars

\* get_records
NextPages ==
    \/ \E q \in Queries : get_records(q)
    \/ get_records_page
    \/ op = "get_records" /\ \E r \in PageResponses(Len(served)) : Respond(r)
    \/ request_exhausted
    \/ get_records_got

SpecPages == Init /\ [][NextPages]_vars

\* Answers to the PATCH of a chunk: the updated records, or a body without them
BatchResponses ==
    UNION { { [status |-> s, headers |-> NoDict, body |-> b] :
                b \in IF s # 200 THEN { ErrorBody }
                      ELSE { [records |-> req.payload.records], NoDict } } :
            s \in PageStatusCodes }

\* batch_update
NextBatch ==
    \/ \E m \in 0..MaxUpdates : batch_update(Updates(m))
    \/ batch_fill
    \/ op = "batch_update" /\ pc = "loop" /\ \E r \in BatchResponses : Respond(r)
    \/ request_exhausted
    \/ batch_got

SpecBatch == Init /\ [][NextBatch]_vars

\* The operations that issue several logical requests
NextRecords == NextPages \/ NextBatch

SpecRecords == Init /\ [][NextRecords]_vars

\* A small set of answers to the request on the wire: a result set of two
\* pages for a list request
FewResponses ==
    { [status |-> s, headers |-> NoDict, body |-> ErrorBody] : s \in {404, 503} }
    \cup { [status |-> 200, headers |-> NoDict, body |-> b] :
              b \in IF op = "get_records"
                    THEN IF served = <<>>
                         THEN { [records |-> <<"recA">>, offset |-> "itrA"],
                                [records |-> <<"recB">>] }
                         ELSE { [records |-> <<"recB">>] }
                    ELSE IF op = "batch_update"
                    THEN { [records |-> req.payload.records] }
                    ELSE { [id |-> "recA", fields |-> [Status |-> "Scored"]] } }

\* The write operations against a server whose answer may be lost
NextWrites ==
    \/ update_record("recA", [Status |-> "Scored"])
    \/ create_record([Status |-> "Scored"])
    \/ batch_update(Updates(FewUpdates))
    \/ batch_fill
    \/ batch_got
    \/ request_exception
    \/ request_exception_applied
    \/ pc = "loop" /\ \E r \in FewResponses : Respond(r)
    \/ request_exhausted
    \/ write_return

SpecWrites == Init /\ [][NextWrites]_vars

\* The caller of the running operation signals cancellation (its deadline
\* passes, or it sets its token). No operation takes a deadline or a token
\* (lines 53-60, 109-115, 141, 149, 157) and no line reads one.
cancel ==
    /\ pc \notin {"idle", "returned", "raised"}
    /\ ~cancelled
    /\ cancelled' = TRUE
    /\ UNCHANGED <<config, elsewhere, op, pc, locals, req, attempt, response, result, error, history,
                   served, applied, calls, sent, spent, given, other>>

\* The record operations with a caller that may cancel
NextCancel ==
    \/ cancel
    \/ NextWrites
    \/ \E q \in Queries : q.view = None /\ q.filter_formula = None /\ get_records(q)
    \/ get_records_page
    \/ get_records_got

SpecCancel == Init /\ [][NextCancel]_vars

\* The four record operations, batch_update over an empty input included
NextOperations ==
    \/ update_record("recA", [Status |-> "Scored"])
    \/ create_record([Status |-> "Scored"])
    \/ \E q \in Queries : get_records(q)
    \/ get_records_page
    \/ get_records_got
    \/ \E n \in {0, FewUpdates} : batch_update(Updates(n))
    \/ batch_fill
    \/ batch_got
    \/ request_exception
    \/ pc = "loop" /\ \E r \in FewResponses : Respond(r)
    \/ request_exhausted
    \/ write_return

SpecOperations == Init /\ [][NextOperations]_vars

\* Answers of a server whose list never ends: every list request may be
\* answered with a page that carries a cursor (and no records: records, the
\* only list get_records holds, stays as it is)
EndlessResponses ==
    IF op = "get_records"
    THEN { [status |-> s, headers |-> NoDict, body |-> ErrorBody] : s \in {404, 503} }
         \cup { [status |-> 200, headers |-> NoDict, body |-> b] :
                  b \in { [records |-> <<>>, offset |-> "itrA"], [records |-> <<>>] } }
    ELSE FewResponses

\* Between two page fetches the history kept of the fetches made so far is
\* dropped. It is no state of get_records, which holds params, records and
\* offset only (lines 117-126): the fetch that follows starts from the same
\* state of the program whether the history is kept or not.
forget ==
    /\ op = "get_records"
    /\ pc = "page"
    /\ calls > 0
    /\ served' = <<>>
    /\ calls' = 0
    /\ sent' = <<>>
    /\ spent' = 0
    /\ tries' = 0
    /\ sleeps' = <<>>
    /\ outcomes' = <<>>
    /\ wire' = NoDict
    /\ UNCHANGED <<config, elsewhere, aux, op, pc, locals, req, attempt, response, result, error,
                   applied>>

\* The record operations against the server whose list never ends
NextEndless ==
    \/ update_record("recA", [Status |-> "Scored"])
    \/ create_record([Status |-> "Scored"])
    \/ \E q \in Queries : get_records(q)
    \/ calls = 0 /\ get_records_page
    \/ forget
    \/ get_records_got
    \/ batch_update(Updates(FewUpdates))
    \/ batch_fill
    \/ batch_got
    \/ request_exception
    \/ pc = "loop" /\ \E r \in EndlessResponses : Respond(r)
    \/ request_exhausted
    \/ write_return

\* The code is sequential and takes its next step; requests.request returns
\* or raises within its timeout (line 72) and time.sleep returns.
SpecEndless == Init /\ [][NextEndless]_vars /\ WF_vars(NextEndless)

\* ------------------------------------------------------------------------
\* Two callers

\* The frame of a call: the arguments and locals of the operation and of its
\* _request (lines 53-63, 117-126, 159-160) with the history kept of it.
\* API_KEY and BASE_ID are module globals (lines 18-19) and the store is the
\* server's: these are no part of a frame.
Frame ==
    [op |-> op, pc |-> pc, query |-> query, params |-> params,
     records |-> records, offset |-> offset, updates |-> updates,
     chunk |-> chunk, results |-> results, req |-> req, attempt |-> attempt,
     response |-> response, result |-> result, error |-> error,
     tries |-> tries, sleeps |-> sleeps, outcomes |-> outcomes,
     wire |-> wire, served |-> served, calls |-> calls, sent |-> sent,
     spent |-> spent, given |-> given, cancelled |-> cancelled]

\* The frame of a caller that has not called yet
IdleFrame ==
    [op |-> "none", pc |-> "idle", query |-> NoDict, params |-> NoDict,
     records |-> <<>>, offset |-> None, updates |-> <<>>, chunk |-> <<>>,
     results |-> <<>>, req |-> NoDict, attempt |-> 0, response |-> NoDict,
     result |-> <<>>, error |-> NoError, tries |-> 0, sleeps |-> <<>>,
     outcomes |-> <<>>, wire |-> NoDict, served |-> <<>>, calls |-> 0,
     sent |-> <<>>, spent |-> 0, given |-> <<>>, cancelled |-> FALSE]

\* Mutant of FrameLocal: attempt is a module global, a resumed caller finds
\* in it what the other caller left there
FrameLocal_SharedAttempt(f, running) == [f EXCEPT !.attempt = running.attempt]

\* What a resumed caller finds in its locals: what it left there; no local of
\* the operations is shared between calls
FrameLocal(f, running) == f

\* A second caller arrives
second_caller ==
    /\ other = NoDict
    /\ other' = IdleFrame
    /\ UNCHANGED <<config, elsewhere, op, pc, locals, req, attempt, response, result, error, history,
                   served, applied, calls, sent, spent, given, cancelled>>

\* The running caller is suspended and the other one resumed
switch ==
    /\ other # NoDict
    /\ other' = Frame
    /\ LET g == FrameLocal(other, Frame) IN
       /\ op' = g.op
       /\ pc' = g.pc
       /\ query' = g.query
       /\ params' = g.params
       /\ records' = g.records
       /\ offset' = g.offset
       /\ updates' = g.updates
       /\ chunk' = g.chunk
       /\ results' = g.results
       /\ req' = g.req
       /\ attempt' = g.attempt
       /\ response' = g.response
       /\ result' = g.result
       /\ error' = g.error
       /\ tries' = g.tries
       /\ sleeps' = g.sleeps
       /\ outcomes' = g.outcomes
       /\ wire' = g.wire
       /\ served' = g.served
       /\ calls' = g.calls
       /\ sent' = g.sent
       /\ spent' = g.spent
       /\ given' = g.given
       /\ cancelled' = g.cancelled
    /\ UNCHANGED <<config, elsewhere, applied>>

\* Record operations called by two callers
NextTwoCallers ==
    \/ second_caller
    \/ switch
    \/ update_record("recA", [Status |-> "Scored"])
    \/ create_record([Status |-> "Scored"])
    \/ \E q \in Queries : q.view = None /\ q.filter_formula = None /\ get_records(q)
    \/ get_records_page
    \/ get_records_got
    \/ batch_update(Updates(FewUpdates))
    \/ batch_fill
    \/ batch_got
    \/ pc = "loop" /\ \E r \in FewResponses : Respond(r)
    \/ request_exhausted
    \/ write_return

SpecTwoCallers == Init /\ [][NextTwoCallers]_vars

\* ------------------------------------------------------------------------
\* Properties of one logical request (checked under Spec)

Is5xx(o) == ~o.exc /\ 500 <= o.status /\ o.status <= 599
Is429(o) == ~o.exc /\ o.status = 429
Is4xxTerminal(o) == ~o.exc /\ 400 <= o.status /\ o.status <= 499 /\ o.status # 429
IsFailure(o) == o.exc \/ Is5xx(o)

\* The request went through _headers and has made at least one attempt
Attempted == Len(outcomes) >= 1

AllFailures == \A i \in 1..Len(outcomes) : IsFailure(outcomes[i])

\* C1: a logical request all of whose transport attempts end in a 5xx status
\* or a network exception makes exactly MAX_RETRIES attempts: it never makes
\* more, it cannot end (return or raise) before the MAX_RETRIES-th, after which
\* it raises the exhausted-retries error and nothing else.
C1_ExactlyMaxRetries ==
    (Attempted /\ AllFailures) =>
        /\ tries <= MAX_RETRIES
        /\ tries = Len(outcomes)
        /\ pc \in {"loop", "raised"}
        /\ (pc = "raised" => tries = MAX_RETRIES /\ error = ExhaustedError)
        /\ (pc = "loop" /\ tries < MAX_RETRIES => ~ENABLED request_exhausted)
        /\ (pc = "loop" /\ tries = MAX_RETRIES =>
                ENABLED request_exhausted /\ ~ENABLED request_exception)

C1_Witness ==
    /\ pc = "raised"
    /\ error = ExhaustedError
    /\ tries = 5
    /\ AllFailures
    /\ \E i, j \in 1..Len(outcomes) : outcomes[i].exc /\ Is5xx(outcomes[j])

\* C2: a 4xx status other than 429 ends the logical request at once, whatever
\* came before: it is always the last outcome (no attempt follows it), no
\* sleep follows it (every sleep belongs to an earlier attempt), and the
\* request has raised an error naming that status; if it is the first
\* response, exactly one attempt was made.
C2_No4xxRetry ==
    /\ \A i \in 1..Len(outcomes) : Is4xxTerminal(outcomes[i]) => i = Len(outcomes)
    /\ (Attempted /\ Is4xxTerminal(outcomes[Len(outcomes)])) =>
           /\ pc = "raised"
           /\ error.type = "AirtableError"
           /\ error.status = outcomes[Len(outcomes)].status
           /\ tries = Len(outcomes)
           /\ Len(sleeps) = tries - 1
           /\ ~ENABLED Next

C2_Witness ==
    /\ pc = "raised"
    /\ Len(outcomes) = 3
    /\ Is429(outcomes[1])
    /\ Is5xx(outcomes[2])
    /\ outcomes[3].status = 404
    /\ Len(sleeps) = 2

C2_WitnessFirst ==
    /\ pc = "raised"
    /\ tries = 1
    /\ outcomes[1].status = 401
    /\ sleeps = <<>>

\* C3: with 429, 5xx and network failures mixed in any order, each of them
\* (a 429 included) consumes one unit of the one attempt budget: the counter
\* equals the number of attempts that ended in one of the three, the request
\* never makes more than MAX_RETRIES attempts, and a request answered 429 at
\* every attempt cannot return and raises the exhausted-retries error after
\* exactly MAX_RETRIES attempts.
All429 == \A i \in 1..Len(outcomes) : Is429(outcomes[i])

C3_RateLimitSharesBudget ==
    /\ tries <= MAX_RETRIES
    /\ tries = Len(outcomes)
    /\ (pc \in {"loop", "raised", "got", "returned"} /\ error # AuthError) =>
           attempt = Cardinality({ i \in 1..Len(outcomes) :
                                     Is429(outcomes[i]) \/ IsFailure(outcomes[i]) })
    /\ (Attempted /\ All429) =>
           /\ pc \in {"loop", "raised"}
           /\ (pc = "raised" => tries = MAX_RETRIES /\ error = ExhaustedError)
           /\ (pc = "loop" /\ tries = MAX_RETRIES =>
                   ENABLED request_exhausted /\ ~ENABLED Respond(outcomes[1]))

C3_Witness ==
    /\ pc = "raised"
    /\ error = ExhaustedError
    /\ tries = 5
    /\ All429

C3_WitnessMixed ==
    /\ pc = "raised"
    /\ error = ExhaustedError
    /\ tries = 5
    /\ \E i, j, k \in 1..5 : Is429(outcomes[i]) /\ Is5xx(outcomes[j]) /\ outcomes[k].exc

\* C4: the sleep that follows a 429 lasts exactly the seconds its Retry-After
\* header gives (3 for "3", 1 for "1"), and exactly BACKOFF_SECONDS (2) when the
\* header is absent, at whatever attempt the 429 comes (so not BACKOFF_SECONDS
\* times the attempt number); the sleep is taken before any further attempt,
\* and a 429 by itself never makes the request raise: it raises only once the
\* budget is used up.
C4_RetryAfterSleep ==
    /\ \A i \in 1..Len(outcomes) :
          Is429(outcomes[i]) =>
              /\ i <= Len(sleeps)
              /\ LET h == outcomes[i].headers IN
                 /\ ("Retry-After" \notin DOMAIN h => sleeps[i] = 2)
                 /\ ("Retry-After" \in DOMAIN h /\ h["Retry-After"] = "3" => sleeps[i] = 3)
                 /\ ("Retry-After" \in DOMAIN h /\ h["Retry-After"] = "1" => sleeps[i] = 1)
    /\ Len(sleeps) <= Len(outcomes)
    /\ (Attempted /\ Is429(outcomes[Len(outcomes)])) =>
           /\ Len(sleeps) = Len(outcomes)
           /\ pc \in {"loop", "raised"}
           /\ (pc = "raised" => tries = MAX_RETRIES /\ error = ExhaustedError)

C4_Witness ==
    /\ Len(outcomes) >= 4
    /\ Is429(outcomes[2]) /\ "Retry-After" \notin DOMAIN outcomes[2].headers
    /\ Is429(outcomes[3]) /\ outcomes[3].headers = ("Retry-After" :> "3")
    /\ Is429(outcomes[4]) /\ outcomes[4].headers = ("Retry-After" :> "1")
    /\ sleeps[2] = 2 /\ sleeps[3] = 3 /\ sleeps[4] = 1
    /\ pc = "loop"

\* C5: in a logical request without a 429, the sleep after the k-th failed
\* attempt (5xx or network error, whatever headers the answer carries) lasts
\* BACKOFF_SECONDS * k seconds: 2, 4, 6, ...; a request answered 503, 503 and
\* then 200 has made exactly three attempts and slept exactly twice, 2 s and
\* then 4 s, and it hands the body of the third answer to the operation, which
\* returns it.
No429 == \A i \in 1..Len(outcomes) : ~Is429(outcomes[i])

C5_LinearBackoff ==
    /\ No429 =>
          /\ \A k \in 1..Len(sleeps) : IsFailure(outcomes[k]) /\ sleeps[k] = 2 * k
          /\ \A k \in 1..Len(outcomes) : IsFailure(outcomes[k]) => k <= Len(sleeps)
    /\ ( /\ Len(outcomes) = 3
         /\ outcomes[1].status = 503
         /\ outcomes[2].status = 503
         /\ outcomes[3].status = 200 ) =>
           /\ tries = 3
           /\ sleeps = <<2, 4>>
           /\ pc \in {"got", "returned"}
           /\ response = outcomes[3].body
           /\ error = NoError
           /\ (pc = "returned" => result = <<outcomes[3].body>>)
           /\ (pc = "got" => ENABLED write_return)

C5_Witness ==
    /\ Len(outcomes) = 3
    /\ outcomes[1].status = 503
    /\ outcomes[2].status = 503 /\ outcomes[2].headers = ("Retry-After" :> "3")
    /\ outcomes[3].status = 200
    /\ pc = "returned"
    /\ sleeps = <<2, 4>>
    /\ result = <<[id |-> "recB", fields |-> [Status |-> "Scored"]]>>

C5_WitnessFive ==
    /\ No429
    /\ Len(sleeps) = 5
    /\ sleeps = <<2, 4, 6, 8, 10>>

\* ------------------------------------------------------------------------
\* Properties of get_records (checked under SpecPages; C6 under SpecRecords,
\* which adds batch_update)

RECURSIVE Flatten(_)
\* The records of the pages ps, in page order
Flatten(ps) ==
    IF ps = <<>> THEN <<>>
    ELSE Flatten(SubSeq(ps, 1, Len(ps) - 1))
         \o (IF "records" \in DOMAIN ps[Len(ps)] THEN ps[Len(ps)].records ELSE <<>>)

\* The page answer carries a cursor (an empty string is none)
HasCursor(page) == "offset" \in DOMAIN page /\ page.offset # ""

\* C6: the attempt counter belongs to one logical request: in every page fetch
\* of get_records and every chunk dispatch of batch_update it starts at 0 and
\* counts the failed attempts of that request only, so that each request,
\* however many attempts the earlier requests of the same operation consumed,
\* can make MAX_RETRIES attempts and is given up as exhausted only after
\* MAX_RETRIES attempts of its own.
C6_FreshBudgetPerRequest ==
    /\ tries <= MAX_RETRIES
    /\ (pc = "loop" => attempt = Len(outcomes) /\ tries = Len(outcomes))
    /\ (pc = "loop" /\ tries = 0 => attempt = 0)
    /\ (pc = "loop" /\ tries < MAX_RETRIES =>
            ~ENABLED request_exhausted /\ ENABLED NextRecords)
    /\ (error = ExhaustedError => tries = MAX_RETRIES)
    /\ (calls >= 1 => spent <= (calls - 1) * MAX_RETRIES)

C6_Witness ==
    /\ op = "get_records"
    /\ calls = 3
    /\ spent = 7
    /\ tries = 5
    /\ error = ExhaustedError

C6_WitnessBatch ==
    /\ op = "batch_update"
    /\ calls = 3
    /\ spent = 9
    /\ tries = 5
    /\ error = ExhaustedError

\* C7: when get_records returns, the server has answered N >= 1 pages with 2xx,
\* each but the last with a cursor, the client has issued exactly N logical
\* requests, and the returned list is the concatenation of the pages' records
\* in the order served: nothing dropped, reordered or removed as a duplicate.
C7_Concatenation ==
    /\ (pc = "returned") =>
           /\ Len(served) >= 1
           /\ calls = Len(served)
           /\ \A i \in 1..(Len(served) - 1) : HasCursor(served[i])
           /\ ~HasCursor(served[Len(served)])
           /\ result = << Flatten(served) >>
    /\ (pc \in {"page", "loop", "raised"} => records = Flatten(served))

C7_Witness ==
    /\ pc = "returned"
    /\ calls = 3
    /\ Len(served) = 3
    /\ Len(served[1].records) = 2 /\ Len(served[2].records) = 2 /\ Len(served[3].records) = 1
    /\ result = << <<"recA", "recB", "recA", "recB", "recA">> >>

\* C8: get_records stops paging exactly when a page answer carries no cursor:
\* it has returned only if the last page served carried none; as long as the
\* last page served carried a cursor it goes on to the next fetch (it stops only
\* by a failed fetch); and once a page without a cursor is served no request
\* follows: every page served before the last carried a cursor, and the client
\* is handling that page or has returned.
C8_StopsAtNoCursor ==
    /\ (pc = "returned" => Len(served) >= 1 /\ ~HasCursor(served[Len(served)]))
    /\ \A i \in 1..(Len(served) - 1) : HasCursor(served[i])
    /\ (Len(served) >= 1 /\ ~HasCursor(served[Len(served)])) =>
           /\ pc \in {"got", "returned"}
           /\ calls = Len(served)
           /\ (pc = "returned" => ~ENABLED NextPages)
    /\ (Len(served) >= 1 /\ HasCursor(served[Len(served)])) =>
           /\ pc \in {"got", "page", "loop", "raised"}
           /\ (pc = "page" => ENABLED get_records_page)
           /\ (pc = "raised" => calls = Len(served) + 1 /\ error # NoError)

C8_Witness ==
    /\ pc = "returned"
    /\ Len(served) = 3
    /\ HasCursor(served[1])
    /\ HasCursor(served[2])
    /\ ~HasCursor(served[3])
    /\ ~ENABLED NextPages

\* C9: every request get_records puts on the wire is a GET of the table whose
\* parameters are the query's (pageSize, and view, filterByFormula, fields[]
\* exactly when given) plus, from the second page on, offset = the cursor of the
\* page answer received just before; the first page request has no offset; the
\* retries of a page carry the same parameters.
\* Pages served before the request last put on the wire was first sent (at got,
\* page and returned that request has been answered with the last page served)
PagesBefore ==
    IF pc \in {"got", "page", "returned"} THEN Len(served) - 1 ELSE Len(served)

C9_CursorThreading ==
    (op = "get_records" /\ tries >= 1) =>
        /\ wire.method = "GET"
        /\ wire.url = <<"https://api.airtable.com/v0", BASE_ID, "Top%20Leads">>
        /\ wire.payload = <<>>
        /\ LET p == wire.params IN
           /\ DOMAIN p \subseteq {"pageSize", "view", "filterByFormula", "fields[]", "offset"}
           /\ "pageSize" \in DOMAIN p /\ p["pageSize"] = query.page_size
           /\ ("view" \in DOMAIN p) = (query.view # None)
           /\ ("view" \in DOMAIN p => p["view"] = query.view)
           /\ ("filterByFormula" \in DOMAIN p) = (query.filter_formula # None)
           /\ ("filterByFormula" \in DOMAIN p => p["filterByFormula"] = query.filter_formula)
           /\ ("fields[]" \in DOMAIN p) = (query.fields # <<>>)
           /\ ("fields[]" \in DOMAIN p => p["fields[]"] = query.fields)
           /\ ("offset" \in DOMAIN p) = (PagesBefore >= 1)
           /\ (PagesBefore >= 1 => p["offset"] = served[PagesBefore].offset)

C9_Witness ==
    /\ op = "get_records"
    /\ pc = "loop"
    /\ Len(served) = 2
    /\ tries = 3
    /\ served[1].offset = "itrB"
    /\ served[2].offset = "itrA"
    /\ wire.params = [pageSize |-> 10, view |-> "Grid view", offset |-> "itrA"]
                       @@ ("fields[]" :> <<"Name">>)

\* C10: a get_records one of whose page fetches failed (by a terminal status,
\* by exhausted retries, or by missing credentials) raises an error and hands
\* nothing to its caller, whatever it had accumulated; whenever it does hand
\* over a list, no fetch failed and the list holds the records of every page up
\* to the one without a cursor.
FetchFailed ==
    \/ pc = "raised"
    \/ error # NoError
    \/ (Attempted /\ ~outcomes[Len(outcomes)].exc
                  /\ Classify(outcomes[Len(outcomes)].status) = "terminal")

C10_NoPartialList ==
    /\ FetchFailed => pc = "raised" /\ error # NoError /\ result = <<>>
    /\ (pc = "loop" /\ tries = MAX_RETRIES) => ENABLED request_exhausted /\ result = <<>>
    /\ result # <<>> =>
           /\ pc = "returned"
           /\ error = NoError
           /\ Len(served) >= 1
           /\ ~HasCursor(served[Len(served)])
           /\ Len(result[1]) = Len(Flatten(served))

C10_Witness ==
    /\ pc = "raised"
    /\ error = ExhaustedError
    /\ Len(served) = 2
    /\ records = <<"recA", "recB", "recA">>
    /\ result = <<>>

C10_WitnessTerminal ==
    /\ pc = "raised"
    /\ error = StatusError(404)
    /\ Len(served) = 1
    /\ records = <<"recA", "recB">>
    /\ result = <<>>

\* ------------------------------------------------------------------------
\* Properties of batch_update (checked under SpecBatch)

\* The number of chunks m entries are cut into
Chunks(m) == (m + ChunkSize - 1) \div ChunkSize

\* The i-th slice of ChunkSize consecutive entries of u (the last one shorter)
Slice(u, i) ==
    SubSeq(u, ChunkSize * (i - 1) + 1,
           IF ChunkSize * i < Len(u) THEN ChunkSize * i ELSE Len(u))

\* C11: batch_update over M entries whose chunks all succeed issues exactly
\* ceil(M / 10) logical requests (none for M = 0); the chunks are the
\* consecutive slices of the input in its order, each of at most 10 entries and
\* every one but the last of exactly 10; the list returned is the records of
\* the answers concatenated in chunk order.
C11_Chunking ==
    op = "batch_update" =>
        /\ Len(sent) = calls
        /\ \A i \in 1..Len(sent) :
               /\ sent[i].records = Slice(given, i)
               /\ Len(sent[i].records) \in 1..ChunkSize
               /\ i < Chunks(Len(given)) => Len(sent[i].records) = ChunkSize
        /\ calls <= Chunks(Len(given))
        /\ pc = "returned" =>
               /\ calls = Chunks(Len(given))
               /\ Len(served) = calls
               /\ result = << Flatten(served) >>

C11_Witness ==
    /\ op = "batch_update"
    /\ pc = "returned"
    /\ Len(given) = 23
    /\ calls = 3
    /\ Len(sent[1].records) = 10 /\ Len(sent[2].records) = 10 /\ Len(sent[3].records) = 3
    /\ Len(result[1]) = 23

C11_WitnessEmpty ==
    /\ op = "batch_update"
    /\ pc = "returned"
    /\ given = <<>>
    /\ calls = 0
    /\ result = << <<>> >>

\* C12: when chunk K of batch_update fails for good (a terminal status or an
\* exhausted budget), chunks 0..K-1 were dispatched in order and each answered
\* with success (and applied by the store), chunk K is the last one
\* dispatched, and the call ends with an error and never hands a list to its
\* caller.
C12_PrefixThenError ==
    op = "batch_update" =>
        /\ (Attempted /\ ~outcomes[Len(outcomes)].exc
                      /\ Classify(outcomes[Len(outcomes)].status) = "terminal")
               => pc = "raised"
        /\ (pc = "loop" /\ tries = MAX_RETRIES)
               => ENABLED request_exhausted /\ ~ENABLED (batch_fill \/ batch_got)
        /\ pc = "raised" =>
               /\ error # NoError
               /\ result = <<>>
               /\ Len(sent) = calls
               /\ Len(served) = calls - 1
               /\ applied = SubSeq(sent, 1, calls - 1)
               /\ \A i \in 1..calls : sent[i].records = Slice(given, i)
               /\ ~ENABLED NextBatch
        /\ result # <<>> =>
               /\ pc = "returned"
               /\ error = NoError
               /\ Len(served) = Chunks(Len(given))
               /\ applied = sent

C12_Witness ==
    /\ op = "batch_update"
    /\ pc = "raised"
    /\ Len(given) = 23
    /\ calls = 2
    /\ error = StatusError(404)
    /\ applied = << [records |-> Slice(given, 1)] >>
    /\ Len(updates) = 3

C12_WitnessExhausted ==
    /\ op = "batch_update"
    /\ pc = "raised"
    /\ Len(given) = 23
    /\ calls = 3
    /\ error = ExhaustedError
    /\ Len(applied) = 2

\* ------------------------------------------------------------------------
\* Properties of the errors (C13 is checked under SpecTwoCallers, whose states
\* hold two calls side by side)

\* Both callers called batch_update with the same input and both calls failed
BothBatchesFailed ==
    /\ other # NoDict
    /\ op = "batch_update" /\ other.op = "batch_update"
    /\ pc = "raised" /\ other.pc = "raised"
    /\ given = other.given

\* C13: the error batch_update surfaces when a chunk fails identifies the
\* failing chunk, so that the error alone tells which prefix of the input is
\* confirmed applied: two failed calls over the same input that raised the
\* same error failed at the same chunk, after the same prefix was confirmed.
C13_ErrorIdentifiesChunk ==
    (BothBatchesFailed /\ error = other.error)
        => calls = other.calls /\ Len(served) = Len(other.served)

\* ------------------------------------------------------------------------
\* Properties of the store (checked under SpecWrites)

\* How often the store applied the write with payload p
TimesApplied(p) == Cardinality({ j \in 1..Len(applied) : applied[j] = p })

\* C14: one call of a write operation (create_record, update_record, one
\* chunk of batch_update) makes the store apply that write at most once,
\* whatever the transport outcomes, a network failure or timeout reported
\* after the server applied the request included.
C14_AppliedAtMostOnce ==
    \A i \in 1..Len(sent) : TimesApplied(sent[i]) <= 1

\* ------------------------------------------------------------------------
\* Properties of the errors of one logical request (checked under Spec)

\* The last transport attempt was answered with status s
LastStatus(s) ==
    Attempted /\ ~outcomes[Len(outcomes)].exc /\ outcomes[Len(outcomes)].status = s

\* The request used up its budget: the error raised is that of line 106
Exhausted ==
    /\ pc = "raised"
    /\ Attempted
    /\ IsFailure(outcomes[Len(outcomes)]) \/ Is429(outcomes[Len(outcomes)])

\* C15: an authentication failure, be it credentials missing from the
\* configuration or credentials the server rejects (401, 403), is surfaced at
\* once, without a retry, as AirtableAuthenticationError and not as the
\* generic error of the client.
C15_AuthenticationError ==
    /\ (pc = "raised" /\ MissingCredentials(API_KEY, BASE_ID))
           => error.type = "AirtableAuthenticationError" /\ tries = 0
    /\ (LastStatus(401) \/ LastStatus(403))
           => /\ pc = "raised"
              /\ Len(sleeps) = tries - 1
              /\ error.type = "AirtableAuthenticationError"

\* C17: the failure reported when the budget is used up tells exhaustion
\* under throttling from exhaustion under transient failures: a request whose
\* attempts were all answered 429 does not end in the error that a request
\* whose attempts all failed with 5xx or a network exception ends in (which
\* is ExhaustedError, see C1).
C17_ThrottlingDistinct ==
    (Exhausted /\ All429) => error # ExhaustedError

\* C18: every error a logical request raises carries the operation (the
\* method), the resource (the url), the number of attempts made and the last
\* status seen; this holds of the error of an exhausted budget too.
C18_ErrorContext ==
    (pc = "raised" /\ Attempted) =>
        /\ ~outcomes[Len(outcomes)].exc => error.status = outcomes[Len(outcomes)].status
        /\ Get(error, "attempts", 0) = tries
        /\ Get(error, "method", None) = req.method
        /\ Get(error, "url", None) = req.url

\* ------------------------------------------------------------------------
\* Cancellation (checked under SpecCancel)

\* C19: a deadline or cancellation signal of the caller aborts the logical
\* request while it sleeps or waits for an answer: once the caller has
\* cancelled, no step makes a further transport attempt.
C19_NoAttemptAfterCancel ==
    [][cancelled => tries' <= tries]_vars

\* ------------------------------------------------------------------------
\* Concurrent callers (checked under SpecTwoCallers)

\* The outcome o made _request go round its loop once more
IsRetried(o) == IsFailure(o) \/ Is429(o)

\* The state of the call with frame f is the one its own arguments and the
\* answers the server gave to its own requests lead to when it runs alone:
\* its attempt counter counts its own failed attempts, its cursor and its
\* lists come from its own pages and chunks, and what it returned or raised
\* follows from its own last answer.
CallAlone(f) ==
    /\ f.tries = Len(f.outcomes)
    /\ f.tries <= MAX_RETRIES
    /\ f.calls = Len(f.sent)
    /\ f.pc = "loop" =>
           /\ f.attempt = Len(f.outcomes)
           /\ \A i \in 1..Len(f.outcomes) : IsRetried(f.outcomes[i])
    /\ f.pc = "raised" =>
           /\ f.result = <<>>
           /\ f.error = IF f.outcomes = <<>> THEN AuthError
                        ELSE IF IsRetried(f.outcomes[Len(f.outcomes)]) THEN ExhaustedError
                        ELSE StatusError(f.outcomes[Len(f.outcomes)].status)
           /\ f.error = ExhaustedError => f.tries = MAX_RETRIES
    /\ f.pc = "returned" => f.error = NoError
    /\ f.op \in {"update_record", "create_record"} =>
           /\ f.calls = 1
           /\ f.pc = "returned" => f.result = << f.outcomes[Len(f.outcomes)].body >>
    /\ f.op = "get_records" =>
           /\ f.calls \in {Len(f.served), Len(f.served) + 1}
           /\ f.pc \in {"page", "loop", "raised"} => f.records = Flatten(f.served)
           /\ (f.pc \in {"page", "loop"} /\ f.served # <<>>)
                  => f.offset = f.served[Len(f.served)].offset
           /\ (f.pc = "loop" /\ f.served # <<>>) => f.req.params.offset = f.offset
           /\ f.pc = "returned" => f.result = << Flatten(f.served) >>
    /\ f.op = "batch_update" =>
           /\ \A i \in 1..Len(f.sent) : f.sent[i].records = Slice(f.given, i)
           /\ f.pc \in {"fill", "loop", "raised"} => f.results = Flatten(f.served)
           /\ f.pc = "returned" =>
                  /\ f.calls = Chunks(Len(f.given))
                  /\ f.result = << Flatten(f.served) >>

\* C20: record operations called concurrently by several callers do not
\* interfere: under every interleaving each call has its own attempt counter,
\* cursor and accumulated lists, the shared configuration (API_KEY, BASE_ID;
\* MAX_RETRIES and BACKOFF_SECONDS are constants) is read and never written,
\* and each call ends as it would have ended running alone against the
\* answers the server gave it.
C20_NoInterference ==
    /\ [](CallAlone(Frame) /\ (other # NoDict => CallAlone(other)))
    /\ [][API_KEY' = API_KEY /\ BASE_ID' = BASE_ID]_vars

C20_Witness ==
    /\ other # NoDict
    /\ op = "get_records" /\ pc = "loop" /\ Len(served) = 1 /\ attempt = 1
    /\ other.op = "batch_update" /\ other.pc = "loop" /\ other.calls = 2
    /\ other.attempt = 4

C20_WitnessInterleaved ==
    /\ other # NoDict
    /\ op = "batch_update" /\ pc = "returned"
    /\ other.op = "batch_update" /\ other.pc = "returned"
    /\ Len(applied) = 4
    /\ applied[1] = applied[2]
    /\ applied[3] = applied[4]
    /\ applied[1] # applied[3]

\* ------------------------------------------------------------------------
\* Termination (checked under SpecEndless)

\* The operation called has returned or raised
Done == pc \in {"returned", "raised"}

\* C16 as stated: no record operation can run forever: whatever the server
\* does, the operation called makes a bounded number of transport attempts and
\* sleeps and then returns or raises.
C16_EveryOperationEnds == <>Done

\* C16, amended: every logical request makes at most MAX_RETRIES transport
\* attempts and sleeps and then returns or raises; update_record,
\* create_record and batch_update therefore return or raise, and so does
\* get_records once the server answers with a page without a cursor. While
\* the server keeps handing out cursors get_records keeps fetching.
C16_EveryRequestEnds ==
    /\ [](tries <= MAX_RETRIES /\ Len(sleeps) <= MAX_RETRIES)
    /\ (pc = "loop") ~> (pc \in {"got", "raised"})
    /\ (op \in {"update_record", "create_record", "batch_update"}) ~> Done
    /\ (op = "get_records" /\ pc = "got" /\ ~HasCursor(response)) ~> (pc = "returned")

C16_Witness ==
    /\ op = "get_records"
    /\ pc = "loop"
    /\ offset = "itrA"
    /\ req.params.offset = "itrA"
    /\ tries = MAX_RETRIES
    /\ Len(sleeps) = MAX_RETRIES

C16_WitnessBatch ==
    /\ op = "batch_update"
    /\ pc = "raised"
    /\ calls = 2
    /\ tries = MAX_RETRIES
    /\ Len(sleeps) = MAX_RETRIES

\* ------------------------------------------------------------------------
\* Further properties of one logical request (checked under Spec)

\* The outcome o is a 2xx answer
IsSuccess(o) == ~o.exc /\ 200 <= o.status /\ o.status <= 299

\* C21: on the first 2xx answer of a logical request the client returns the
\* parsed body of that answer at once: the success is the last outcome (no
\* transport attempt follows it), every sleep belongs to an attempt before
\* it, and the body handed over is that of the successful attempt.
C21_ReturnsOnFirstSuccess ==
    /\ \A i \in 1..Len(outcomes) : IsSuccess(outcomes[i]) => i = Len(outcomes)
    /\ (Attempted /\ IsSuccess(outcomes[Len(outcomes)])) =>
           /\ pc \in {"got", "returned"}
           /\ response = outcomes[Len(outcomes)].body
           /\ Len(sleeps) = tries - 1
           /\ error = NoError
           /\ ~ENABLED request_exception
           /\ ~ENABLED request_exhausted
           /\ pc = "returned" => result = << outcomes[Len(outcomes)].body >>
    /\ pc \in {"got", "returned"} => Attempted /\ IsSuccess(outcomes[Len(outcomes)])

C21_Witness ==
    /\ pc = "returned"
    /\ tries = 3
    /\ Is5xx(outcomes[1])
    /\ Is429(outcomes[2])
    /\ outcomes[3].status = 201
    /\ result = << outcomes[3].body >>
    /\ Len(sleeps) = 2

\* C25: inside one logical request every sleep is followed by another
\* transport attempt: once the attempt that uses up the budget has failed the
\* request fails without sleeping first, so a request that ends in the
\* exhausted-retries error has slept at most MAX_RETRIES - 1 times.
C25_NoSleepBeforeFailure ==
    /\ Exhausted => Len(sleeps) <= MAX_RETRIES - 1
    /\ Len(sleeps) <= tries
    /\ (pc = "loop" /\ Len(sleeps) = tries /\ tries > 0) => Retrying(attempt)

\* The statuses the classification is probed with: those the server answers
\* with and the ends of the ranges
ProbeStatuses == StatusCodes \cup {199, 299, 399, 400, 428, 430, 500, 599}

\* The classes a status belongs to by its range
ClassesOf(s) ==
    (IF s = 429 THEN {"rate_limited"} ELSE {})
    \cup (IF 500 <= s /\ s <= 599 THEN {"server_error"} ELSE {})
    \cup (IF 200 <= s /\ s <= 299 THEN {"success"} ELSE {})
    \cup (IF s # 429 /\ (s < 200 \/ (300 <= s /\ s <= 499) \/ s >= 600)
          THEN {"terminal"} ELSE {})

\* The outcome o is an answer with a status outside 429, 2xx and 5xx
IsTerminal(o) ==
    ~o.exc /\ o.status # 429 /\ ~(200 <= o.status /\ o.status <= 299)
           /\ ~(500 <= o.status /\ o.status <= 599)

\* C27: the classification of an answer in _request is total and exclusive:
\* every status is in exactly one of rate-limited (429), retryable (500-599),
\* success (200-299) and terminal, and the branch the code takes is that
\* one; a status outside the three ranges (1xx, 3xx, 4xx other than 429, 600
\* and up) ends the request with AirtableError, without a retry and without
\* a sleep.
C27_ClassificationTotal ==
    /\ \A s \in ProbeStatuses : ClassesOf(s) = { Classify(s) }
    /\ \A i \in 1..Len(outcomes) : IsTerminal(outcomes[i]) => i = Len(outcomes)
    /\ (Attempted /\ IsTerminal(outcomes[Len(outcomes)])) =>
           /\ pc = "raised"
           /\ error = StatusError(outcomes[Len(outcomes)].status)
           /\ Len(sleeps) = tries - 1
           /\ ~ENABLED Next
    /\ (Attempted /\ ~outcomes[Len(outcomes)].exc
                  /\ Classify(outcomes[Len(outcomes)].status) # "terminal")
           => error # StatusError(outcomes[Len(outcomes)].status)

C27_Witness ==
    /\ pc = "raised"
    /\ tries = 2
    /\ Is5xx(outcomes[1])
    /\ outcomes[2].status = 300
    /\ error = StatusError(300)
    /\ Len(sleeps) = 1

C27_WitnessInformational ==
    /\ pc = "raised"
    /\ tries = 1
    /\ outcomes[1].status = 100
    /\ sleeps = <<>>

\* ------------------------------------------------------------------------
\* Missing credentials (checked under SpecOperations)

\* API_KEY or BASE_ID is unset (os.getenv gave None) or empty
CredentialUnset == API_KEY \in {None, ""} \/ BASE_ID \in {None, ""}

\* C26 as stated: with API_KEY or BASE_ID unset every record operation
\* raises AirtableAuthenticationError, before any transport attempt and any
\* sleep.
C26_EveryOperationRaises ==
    ((API_KEY = None \/ BASE_ID = None) /\ Done)
        => pc = "raised" /\ error = AuthError /\ tries = 0 /\ sleeps = <<>>

\* C26, amended: with API_KEY or BASE_ID unset no HTTP request is issued and
\* no sleep is made by any record operation, nothing is written or read, and
\* the first logical request of the operation (the first page, the first
\* chunk) raises AirtableAuthenticationError; batch_update over an empty
\* list issues no logical request and returns the empty list.
C26_NoRequestWithoutCredentials ==
    CredentialUnset =>
        /\ tries = 0 /\ spent = 0
        /\ sleeps = <<>>
        /\ outcomes = <<>>
        /\ wire = NoDict
        /\ applied = <<>> /\ served = <<>>
        /\ records = <<>> /\ results = <<>>
        /\ pc \notin {"loop", "got"}
        /\ calls <= 1
        /\ calls = 1 => pc = "raised"
        /\ pc = "raised" => error = AuthError /\ result = <<>> /\ calls = 1
        /\ pc = "returned" =>
               op = "batch_update" /\ given = <<>> /\ calls = 0 /\ result = << <<>> >>
        /\ pc = "page" => ENABLED get_records_page
        /\ pc = "fill" => ENABLED batch_fill

C26_Witness ==
    /\ API_KEY = "set"
    /\ BASE_ID = None
    /\ op = "batch_update"
    /\ Len(given) = FewUpdates
    /\ pc = "raised"
    /\ error = AuthError
    /\ Len(sent) = 1
    /\ applied = <<>>

C26_WitnessPage ==
    /\ API_KEY = ""
    /\ op = "get_records"
    /\ pc = "raised"
    /\ error = AuthError
    /\ calls = 1
    /\ wire = NoDict

\* ------------------------------------------------------------------------
\* The agents' batch runs: SMSAgent.run_ready_conversations and
\* _process_record (src/agents/sms_agent.py lines 67-85, 107-164),
\* OfferAgent.process_motivated_properties and _process_record
\* (src/agents/offer_agent.py lines 74-137). Both call get_records and
\* update_record of the Airtable client. log_agent_event and
\* log_batch_summary write a log line and take no part in the control flow.

MaxListed == 2

\* Records of the agents' tables: with an incoming message the model is asked
\* about, with an opt-out message (answered without the model), without
\* fields, without an id
AgentRecords ==
    { [id |-> "recA", fields |-> [Message |-> "hello"]],
      [id |-> "recB", fields |-> [Message |-> "stop"]],
      [id |-> "recC", fields |-> NoDict],
      [fields |-> [Message |-> "hello"]] }

RECURSIVE ListsUpTo(_, _)
ListsUpTo(S, n) ==
    IF n = 0 THEN { <<>> }
    ELSE ListsUpTo(S, n - 1)
         \cup { Append(l, x) : l \in { k \in ListsUpTo(S, n - 1) : Len(k) = n - 1 }, x \in S }

\* What the table holds when the batch run lists it
AgentListings == ListsUpTo(AgentRecords, MaxListed)

\* The limit argument of a batch run: None or a count
Limits == { <<>>, <<1>> }

\* filter_formula of the batch run (sms_agent.py line 68, offer_agent.py
\* line 75) as the arguments of get_records
AgentQuery ==
    [view |-> None, filter_formula |-> "{Status}='New'", fields |-> <<>>,
     page_size |-> PAGE_SIZE]

\* except AirtableError: AirtableAuthenticationError is a subclass
\* (src/data/airtable_client.py lines 27-32)
IsAirtableError(e) == e.type \in {"AirtableError", "AirtableAuthenticationError"}

\* str(fields.get(incoming_field, "")).strip() (sms_agent.py line 114)
IncomingMessage(r) == Get(Get(r, "fields", NoDict), "Message", "")

\* should_opt_out (sms_agent.py lines 63-65) on the messages of AgentRecords
ShouldOptOut(text) == text = "stop"

\* The call of the client has ended and its frame is left: the client is
\* ready for the next call, the record of the finished call is dropped
Release ==
    /\ op' = "none"
    /\ pc' = "idle"
    /\ query' = NoDict
    /\ params' = NoDict
    /\ records' = <<>>
    /\ offset' = None
    /\ updates' = <<>>
    /\ chunk' = <<>>
    /\ results' = <<>>
    /\ req' = NoDict
    /\ attempt' = 0
    /\ response' = NoDict
    /\ result' = <<>>
    /\ error' = NoError
    /\ tries' = 0
    /\ sleeps' = <<>>
    /\ outcomes' = <<>>
    /\ wire' = NoDict
    /\ served' = <<>>
    /\ applied' = <<>>
    /\ calls' = 0
    /\ sent' = <<>>
    /\ spent' = 0
    /\ given' = <<>>

\* run_ready_conversations up to its call of get_records (sms_agent.py
\* lines 67-70)
run_ready_conversations(lim) ==
    /\ apc = "idle"
    /\ pc = "idle"
    /\ agent' = "sms_agent"
    /\ limit' = lim
    /\ apc' = "fetch"
    /\ UNCHANGED <<client, apartBatchRun, fetched, record, agent_results, written, listed>>

\* process_motivated_properties up to its call of get_records
\* (offer_agent.py lines 74-77)
process_motivated_properties(lim) ==
    /\ apc = "idle"
    /\ pc = "idle"
    /\ agent' = "offer_agent"
    /\ limit' = lim
    /\ apc' = "fetch"
    /\ UNCHANGED <<client, apartBatchRun, fetched, record, agent_results, written, listed>>

\* get_records returned or raised (sms_agent.py lines 69-75, offer_agent.py
\* lines 76-82): an AirtableError ends the run with [], the records are
\* iterated otherwise
batch_fetched ==
    /\ apc = "fetch"
    /\ op = "get_records"
    /\ pc \in {"returned", "raised"}
    /\ IF pc = "raised"
       THEN /\ apc' = IF IsAirtableError(error) THEN "returned" ELSE "raised"
            /\ UNCHANGED <<fetched, listed>>
       ELSE /\ apc' = "loop"
            /\ fetched' = result[1]
            /\ listed' = result[1]
    /\ Release
    /\ UNCHANGED <<config, cancelled, other, apartBatchRun, agent, limit, record,
                   agent_results, written>>

\* len(results) >= limit (sms_agent.py line 77, offer_agent.py line 84)
LimitReached == limit # <<>> /\ Len(agent_results) >= limit[1]

SMSAgentResult(record_id, status, err) ==
    [record_id |-> record_id, status |-> status, error |-> err]

\* _process_record up to its call of update_record. SMSAgent (lines 107-135):
\* a record without id is an error, one without incoming message is skipped,
\* generate_reply asks the model unless the message opts out, and what the
\* model call raises is not caught. OfferAgent (lines 94-103): a record
\* without id is an error, and what _generate_offer raises is caught by
\* except Exception (line 112).
process_record(modelRaises) ==
    /\ apc = "loop"
    /\ fetched # <<>>
    /\ ~LimitReached
    /\ LET r == Head(fetched)
           record_id == Get(r, "id", "")
           finish(res) == /\ agent_results' = Append(agent_results, res)
                          /\ written' = Append(written, "none")
                          /\ UNCHANGED <<apc, record>>
       IN  /\ fetched' = Tail(fetched)
           /\ IF ~Truthy(record_id)
              THEN finish(SMSAgentResult("", "error", "missing_record_id"))
              ELSE IF agent = "sms_agent" /\ IncomingMessage(r) = ""
              THEN finish(SMSAgentResult(record_id, "skipped", None))
              ELSE IF agent = "sms_agent" /\ ~ShouldOptOut(IncomingMessage(r))
                      /\ modelRaises
              THEN /\ apc' = "raised"
                   /\ UNCHANGED <<record, agent_results, written>>
              ELSE IF agent = "offer_agent" /\ modelRaises
              THEN finish(SMSAgentResult(record_id, "error", "model"))
              ELSE /\ apc' = "write"
                   /\ record' = r
                   /\ UNCHANGED <<agent_results, written>>
    /\ UNCHANGED <<client, apartBatchRun, agent, limit, listed>>

\* The fields _process_record writes (sms_agent.py lines 139-142,
\* offer_agent.py lines 107-110)
AgentFields == [Status |-> "Scored"]

\* Mutant of process_record_end: the record counts as processed whether the
\* write came through or not
process_record_end_Optimistic ==
    /\ apc = "write"
    /\ op = "update_record"
    /\ pc \in {"returned", "raised"}
    /\ agent_results' = Append(agent_results, SMSAgentResult(record.id, "success", None))
    /\ written' = Append(written, pc)
    /\ apc' = "loop"
    /\ Release
    /\ UNCHANGED <<config, cancelled, other, apartBatchRun, agent, limit, fetched, record,
                   listed>>

\* update_record returned or raised (sms_agent.py lines 144-164,
\* offer_agent.py lines 112-137): the result of the record
process_record_end ==
    /\ apc = "write"
    /\ op = "update_record"
    /\ pc \in {"returned", "raised"}
    /\ IF pc = "returned"
       THEN /\ agent_results' =
                   Append(agent_results, SMSAgentResult(record.id, "success", None))
            /\ written' = Append(written, pc)
            /\ apc' = "loop"
       ELSE IF agent = "offer_agent" \/ IsAirtableError(error)
       THEN /\ agent_results' =
                   Append(agent_results, SMSAgentResult(record.id, "error", error.text))
            /\ written' = Append(written, pc)
            /\ apc' = "loop"
       ELSE /\ apc' = "raised"
            /\ UNCHANGED <<agent_results, written>>
    /\ Release
    /\ UNCHANGED <<config, cancelled, other, apartBatchRun, agent, limit, fetched, record,
                   listed>>

\* The loop over the records ends (sms_agent.py lines 76-85, offer_agent.py
\* lines 83-92): return results
batch_summary ==
    /\ apc = "loop"
    /\ fetched = <<>> \/ LimitReached
    /\ apc' = "returned"
    /\ UNCHANGED <<client, apartBatchRun, agent, limit, fetched, record, agent_results,
                   written, listed>>

\* Answers of the server to the calls of a batch run: the listing in one
\* page, the write accepted, refused or failing
AgentResponses ==
    IF op = "get_records"
    THEN { [status |-> 200, headers |-> NoDict, body |-> [records |-> l]] :
              l \in AgentListings }
         \cup { [status |-> 404, headers |-> NoDict, body |-> ErrorBody] }
    ELSE { [status |-> 200, headers |-> NoDict,
            body |-> [id |-> record.id, fields |-> AgentFields]] }
         \cup { [status |-> s, headers |-> NoDict, body |-> ErrorBody] : s \in {404, 503} }

\* A batch run of either agent
NextAgents ==
    \/ \E lim \in Limits : run_ready_conversations(lim)
    \/ \E lim \in Limits : process_motivated_properties(lim)
    \/ apc = "fetch" /\ get_records(AgentQuery)
    \/ get_records_page
    \/ get_records_got
    \/ batch_fetched
    \/ \E modelRaises \in BOOLEAN : process_record(modelRaises)
    \/ apc = "write" /\ update_record(record.id, AgentFields)
    \/ op = "update_record" /\ request_exception
    \/ pc = "loop" /\ \E r \in AgentResponses : Respond(r)
    \/ request_exhausted
    \/ write_return
    \/ process_record_end
    \/ batch_summary

SpecAgents == Init /\ [][NextAgents]_vars

\* ------------------------------------------------------------------------
\* C22: a result of a batch run of SMSAgent or OfferAgent has status
\* "success" only if the update_record call for its record returned; when
\* the call raised, the record's result has status "error" and carries the
\* record's id and the error's text; an error of the client in a write is
\* always an AirtableError, which _process_record catches, so the run goes
\* on: the results come in the order of the records listed, and a run that
\* returns has a result for every record listed, up to its limit.
C22_SuccessOnlyAfterWrite ==
    /\ Len(written) = Len(agent_results)
    /\ Len(agent_results) <= Len(listed)
    /\ \A i \in 1..Len(agent_results) :
          /\ agent_results[i].status = "success" => written[i] = "returned"
          /\ written[i] = "raised" =>
                /\ agent_results[i].status = "error"
                /\ agent_results[i].error \in
                      {AuthError.text, StatusError(0).text, ExhaustedError.text}
          /\ i <= Len(listed) => agent_results[i].record_id = Get(listed[i], "id", "")
    /\ (apc = "write" /\ pc = "raised") => IsAirtableError(error)
    /\ (apc = "write" /\ pc \in {"returned", "raised"}) => ENABLED process_record_end
    /\ apc = "returned" =>
          Len(agent_results) = IF limit # <<>> /\ limit[1] < Len(listed) THEN limit[1]
                               ELSE Len(listed)

\* SMSAgent: the write of the first record failed, the second record was
\* processed all the same
C22_Witness ==
    /\ agent = "sms_agent"
    /\ apc = "returned"
    /\ Len(agent_results) = 2
    /\ written = <<"raised", "returned">>
    /\ agent_results[1].status = "error"
    /\ agent_results[2].status = "success"

\* The same for OfferAgent, the first write out of retries
C22_WitnessOffer ==
    /\ agent = "offer_agent"
    /\ apc = "returned"
    /\ Len(agent_results) = 2
    /\ written = <<"raised", "returned">>
    /\ agent_results[1].error = ExhaustedError.text
    /\ agent_results[2].status = "success"

\* ------------------------------------------------------------------------
\* select_model (src/utils/model_selector.py lines 7-61)

DEFAULT_MODEL_MAP == ("sms" :> "phi3") @@ ("comps" :> "mistral")
FALLBACK_MODEL == "gpt-4o"
DEFAULT_MAX_INPUT_LENGTH == 4000

\* Values of a task's type: strings and an int, each with the text str() gives
TaskTypes ==
    { [py |-> "str", text |-> t] : t \in {"sms", "SMS", "comps", "Comps", "unknown", ""} }
    \cup { [py |-> "int", text |-> "5"] }

\* The task argument: None, a Mapping, or an object; type is <<>> when the
\* key or attribute is missing or None
Tasks ==
    { [form |-> "None", type |-> <<>>] }
    \cup { [form |-> f, type |-> t] :
              f \in {"Mapping", "object"},
              t \in { <<>> } \cup { <<v>> : v \in TaskTypes } }

\* The input_text argument by its length; None is allowed for
InputTexts ==
    { [isNone |-> TRUE, len |-> 0] }
    \cup { [isNone |-> FALSE, len |-> n] :
              n \in {0, 5, DEFAULT_MAX_INPUT_LENGTH - 1, DEFAULT_MAX_INPUT_LENGTH,
                     DEFAULT_MAX_INPUT_LENGTH + 1} }

MaxInputLengths == {0, 4, DEFAULT_MAX_INPUT_LENGTH}

\* str(raw_type)
Str(v) == v.text

\* Mutant of Lower: the type is looked up as it is written
Lower_AsWritten(s) == s

\* str.lower() on the texts of TaskTypes
Lower(s) ==
    IF s = "SMS" THEN "sms"
    ELSE IF s = "Comps" THEN "comps"
    ELSE s

\* _resolve_task_type (lines 16-32): <<>> for None
_resolve_task_type(t) ==
    IF t.form = "None" THEN <<>>
    ELSE IF t.form = "Mapping"
    THEN (IF t.type # <<>> THEN <<Str(t.type[1])>> ELSE <<>>)
    ELSE (IF t.type # <<>> THEN <<Str(t.type[1])>> ELSE <<>>)

\* len(input_text or "")
InputLength(text) == IF text.isNone \/ text.len = 0 THEN 0 ELSE text.len

\* select_model (lines 35-61)
SelectModel(t, text, max) ==
    IF InputLength(text) > max THEN FALLBACK_MODEL
    ELSE LET task_type == _resolve_task_type(t)
         IN  IF task_type = <<>> \/ task_type[1] = "" THEN FALLBACK_MODEL
             ELSE Get(DEFAULT_MODEL_MAP, Lower(task_type[1]), FALLBACK_MODEL)

\* A call of select_model
select_model ==
    /\ selected = <<>>
    /\ selected' = <<SelectModel(task, input_text, max_input_length)>>
    /\ UNCHANGED <<client, apartSelection, task, input_text, max_input_length>>

InitSelection ==
    /\ ClientInit
    /\ API_KEY = "set"
    /\ BASE_ID = "set"
    /\ BatchRunInit
    /\ WebappInit
    /\ RouterInit
    /\ SchedulerInit
    /\ task \in Tasks
    /\ input_text \in InputTexts
    /\ max_input_length \in MaxInputLengths
    /\ selected = <<>>

NextSelection == select_model

SpecSelection == InitSelection /\ [][NextSelection]_vars

\* ------------------------------------------------------------------------
\* C23: select_model returns FALLBACK_MODEL whenever the input text is longer
\* than max_input_length, whatever the task; otherwise it returns the model
\* DEFAULT_MODEL_MAP has for the task's type, compared without regard to
\* case, and FALLBACK_MODEL when the type is missing, empty or no key of the map.
C23_SelectModel ==
    selected # <<>> =>
        LET longer == ~input_text.isNone /\ input_text.len > max_input_length
            type == IF task.type = <<>> THEN "" ELSE task.type[1].text
        IN  selected[1] =
                IF longer THEN "gpt-4o"
                ELSE IF type \in {"sms", "SMS"} THEN "phi3"
                ELSE IF type \in {"comps", "Comps"} THEN "mistral"
                ELSE "gpt-4o"

\* A type written in capitals with a text of exactly the greatest length
C23_Witness ==
    /\ selected = <<"phi3">>
    /\ task.type = << [py |-> "str", text |-> "SMS"] >>
    /\ input_text.len = max_input_length
    /\ max_input_length = DEFAULT_MAX_INPUT_LENGTH

\* A known type with a text one character too long
C23_WitnessLong ==
    /\ selected = <<FALLBACK_MODEL>>
    /\ task.type = << [py |-> "str", text |-> "sms"] >>
    /\ input_text.len = DEFAULT_MAX_INPUT_LENGTH + 1
    /\ max_input_length = DEFAULT_MAX_INPUT_LENGTH

\* ------------------------------------------------------------------------
\* The web application (src/main.py lines 14-77) behind the test client
\* (src/fastapi/testclient.py lines 20-68, src/fastapi/application.py)

MaxRequests == 2

\* load_agents (main.py lines 54-57): one SimpleAgent per key of
\* DEFAULT_MODEL_MAP
load_agents == DOMAIN DEFAULT_MODEL_MAP

\* The routes create_app registers (main.py lines 66, 70)
Routes == { <<"GET", "/ping">>, <<"POST", "/agents/run">> }

\* FastAPI.resolve (application.py lines 32-33): None when there is no route
Resolve(method, path) == IF <<method, path>> \in Routes THEN <<method, path>> ELSE None

\* Texts of the input field
PayloadTexts ==
    { [isNone |-> FALSE, len |-> n] : n \in {0, 5, DEFAULT_MAX_INPUT_LENGTH + 1} }

\* Bodies a client posts: no body, the agent alone, an AgentPayload
Payloads ==
    { NoDict }
    \cup { [agent |-> a] : a \in {"sms", "offer"} }
    \cup { [agent |-> a, input |-> t] :
              a \in {"sms", "comps", "SMS", "offer"}, t \in PayloadTexts }

\* AgentPayload(**payload) (testclient.py lines 62-63, main.py lines 17-20):
\* a TypeError unless the payload has both fields
IsAgentPayload(json) == DOMAIN json = {"agent", "input"}

\* log_interaction(agent, input, response): one entry is added to the log
LogInteraction(entries, key, text, response_text) ==
    Append(entries, [agent |-> key, input |-> text, response |-> response_text])

\* Mutant of SimpleAgentRun: the agent's key is given as its model
SimpleAgentRun_KeyAsModel(key, text) ==
    [agent |-> key,
     model |-> key,
     response |-> <<key, " agent response to: ", text>>]

\* SimpleAgent.run (main.py lines 30-37): the result
SimpleAgentRun(key, text) ==
    [agent |-> key,
     model |-> SelectModel([form |-> "Mapping", type |-> << [py |-> "str", text |-> key] >>],
                           text, DEFAULT_MAX_INPUT_LENGTH),
     response |-> <<key, " agent response to: ", text>>]

\* One request and its answer, with the agents that ran for it and the length
\* of the log after it
Exchange(method, path, json, status_code, data, ran, logged) ==
    [method |-> method, path |-> path, json |-> json, status_code |-> status_code,
     data |-> data, ran |-> ran, logged |-> logged]

\* TestClient.get (testclient.py lines 26-35); ping (main.py lines 66-68)
get(path) ==
    /\ Len(http) < MaxRequests
    /\ UNCHANGED log
    /\ http' = Append(http,
          IF Resolve("GET", path) = None
          THEN Exchange("GET", path, NoDict, 404, [detail |-> "Not Found"], <<>>, Len(log))
          ELSE Exchange("GET", path, NoDict, 200, [status |-> "ok"], <<>>, Len(log)))
    /\ UNCHANGED <<client, apartWebapp>>

\* TestClient.post (testclient.py lines 37-48); run_agent (main.py lines
\* 70-77) and SimpleAgent.run (lines 30-37). A status_code of 0 stands for the
\* exception that leaves post.
post(path, json) ==
    /\ Len(http) < MaxRequests
    /\ IF Resolve("POST", path) = None
       THEN /\ http' = Append(http,
                   Exchange("POST", path, json, 404, [detail |-> "Not Found"], <<>>, Len(log)))
            /\ UNCHANGED log
       ELSE IF ~IsAgentPayload(json)
       THEN /\ http' = Append(http,
                   Exchange("POST", path, json, 0, [raised |-> "TypeError"], <<>>, Len(log)))
            /\ UNCHANGED log
       ELSE IF json.agent \notin load_agents
       THEN /\ http' = Append(http,
                   Exchange("POST", path, json, 404, [detail |-> "Agent not found"], <<>>, Len(log)))
            /\ UNCHANGED log
       ELSE LET out == SimpleAgentRun(json.agent, json.input)
            IN  /\ log' = LogInteraction(log, json.agent, json.input, out.response)
                /\ http' = Append(http,
                      Exchange("POST", path, json, 200, out, <<json.agent>>,
                               Len(log) + 1))
    /\ UNCHANGED <<client, apartWebapp>>

InitWebapp ==
    /\ Init
    /\ API_KEY = "set"
    /\ BASE_ID = "set"

NextWebapp ==
    \/ \E path \in {"/ping", "/agents/run"} : get(path)
    \/ \E path \in {"/ping", "/agents/run"}, json \in Payloads : post(path, json)

SpecWebapp == InitWebapp /\ [][NextWebapp]_vars

\* ------------------------------------------------------------------------
\* C24: POST /agents/run with an AgentPayload naming a registered agent is
\* answered 200 with a result of exactly the keys agent, model and response,
\* whose agent is the name and whose model is a value of DEFAULT_MODEL_MAP or
\* FALLBACK_MODEL, and it runs that agent once and adds exactly one entry to
\* the log; with an unregistered name it is answered 404, runs no agent and
\* logs nothing; GET /ping is always answered 200 with {"status": "ok"}.
C24_Endpoints ==
    /\ \A i \in 1..Len(http) :
          LET x == http[i]
              before == IF i = 1 THEN 0 ELSE http[i - 1].logged
              run == x.method = "POST" /\ x.path = "/agents/run"
                     /\ DOMAIN x.json = {"agent", "input"}
          IN  /\ (run /\ x.json.agent \in {"sms", "comps"}) =>
                    /\ x.status_code = 200
                    /\ DOMAIN x.data = {"agent", "model", "response"}
                    /\ x.data.agent = x.json.agent
                    /\ x.data.model \in {"phi3", "mistral", "gpt-4o"}
                    /\ x.ran = <<x.json.agent>>
                    /\ x.logged = before + 1
                    /\ log[x.logged].agent = x.json.agent
                    /\ log[x.logged].input = x.json.input
              /\ (run /\ x.json.agent \notin {"sms", "comps"}) =>
                    /\ x.status_code = 404
                    /\ x.ran = <<>>
                    /\ x.logged = before
              /\ (x.method = "GET" /\ x.path = "/ping") =>
                    /\ x.status_code = 200
                    /\ x.data = [status |-> "ok"]
                    /\ x.logged = before
    /\ Len(log) = IF http = <<>> THEN 0 ELSE http[Len(http)].logged

\* An unregistered name, then a registered one
C24_Witness ==
    /\ Len(http) = 2
    /\ http[1].json = [agent |-> "offer", input |-> [isNone |-> FALSE, len |-> 5]]
    /\ http[1].status_code = 404
    /\ http[2].json = [agent |-> "sms", input |-> [isNone |-> FALSE, len |-> 5]]
    /\ http[2].status_code = 200
    /\ http[2].data.model = "phi3"
    /\ Len(log) = 1

\* /ping after an agent has run
C24_WitnessPing ==
    /\ Len(http) = 2
    /\ http[1].status_code = 200
    /\ http[1].ran = <<"comps">>
    /\ http[2].path = "/ping"
    /\ http[2].method = "GET"
    /\ http[2].status_code = 200

\* ------------------------------------------------------------------------
\* AIRouter, TaskQueue and build_chain (src/api/ai_router.py)

MaxChain == 3
MaxTriggers == 1
MaxPops == 6

AgentNames == {"a", "b", "c"}

\* AgentTask (lines 10-14)
AgentTask(name, payload, next_tasks) ==
    [agent |-> name, payload |-> payload, next_tasks |-> next_tasks]

\* What a handler returns (line 66): "quiet" returns None, "spawn" returns a
\* list of one task that has a next task of its own
Handlers == {"quiet", "spawn"}
Produced(handler) ==
    IF handler = "spawn"
    THEN << AgentTask("b", [note |-> "spawned"],
                      << AgentTask("c", [note |-> "next of spawned"], <<>>) >>) >>
    ELSE None

\* result = handler(task.payload) or [] (line 66)
OrEmpty(x) == IF x = None \/ x = <<>> THEN <<>> ELSE x

\* The events submitted, and the triggers registered: the events the
\* predicate holds of and the agents whose tasks the factories make
Events == {"lead", "sms"}
TriggerChoices ==
    { [events |-> {"lead"}, agents |-> <<"a", "b">>],
      [events |-> {"lead", "sms"}, agents |-> <<"c">>] }

\* The lists given to build_chain: fresh tasks, told apart by the step in
\* their payload
RECURSIVE ChainTasks(_, _)
ChainTasks(names, from) ==
    IF names = <<>> THEN <<>>
    ELSE << AgentTask(Head(names), [step |-> from], <<>>) >>
         \o ChainTasks(Tail(names), from + 1)
ChainLists == { ChainTasks(names, 1) : names \in ListsUpTo(AgentNames, MaxChain) \ { <<>> } }

\* build_chain (lines 73-76): each task gets its successor as a next task;
\* the first task is returned
RECURSIVE build_chain(_)
build_chain(tasks) ==
    IF Len(tasks) = 1 THEN tasks[1]
    ELSE [tasks[1] EXCEPT !.next_tasks = Append(@, build_chain(Tail(tasks)))]

\* TaskQueue.add (lines 21-22)
Add(q, t) == Append(q, t)

\* TaskQueue.extend (lines 24-26)
Extend_(q, ts) == q \o ts

\* Mutant of PopLeft: the newest task is taken
PopLeft_Newest(q) == <<q[Len(q)], SubSeq(q, 1, Len(q) - 1)>>

\* TaskQueue.pop on a queue that is not empty (lines 28-30): the task and the
\* rest of the queue
PopLeft(q) == <<Head(q), Tail(q)>>

\* register_agent (lines 47-50). The router is set up before tasks are
\* submitted to it.
register_agent(name, handler) ==
    /\ rpc = "idle"
    /\ queue = <<>>
    /\ registry' = (name :> handler) @@ registry
    /\ UNCHANGED <<client, apartRouter, triggers, queue, rpc, enqueued, popped, chain>>

\* register_trigger (lines 52-53)
register_trigger(tr) ==
    /\ rpc = "idle"
    /\ queue = <<>>
    /\ Len(triggers) < MaxTriggers
    /\ triggers' = Append(triggers, tr)
    /\ UNCHANGED <<client, apartRouter, registry, queue, rpc, enqueued, popped, chain>>

\* The tasks submit_event adds (lines 56-59)
RECURSIVE Triggered(_, _)
Triggered(trs, event) ==
    IF trs = <<>> THEN <<>>
    ELSE (IF event \in Head(trs).events
          THEN [i \in 1..Len(Head(trs).agents) |->
                   AgentTask(Head(trs).agents[i], [event |-> event], <<>>)]
          ELSE <<>>)
         \o Triggered(Tail(trs), event)

\* submit_event (lines 55-59), for one event that a trigger fires on
submit_event(event) ==
    /\ rpc = "idle"
    /\ enqueued = <<>> \/ (chain # <<>> /\ Len(enqueued) = 1)
    /\ queue' = Extend_(queue, Triggered(triggers, event))
    /\ enqueued' = enqueued \o Triggered(triggers, event)
    /\ queue' # queue
    /\ UNCHANGED <<client, apartRouter, registry, triggers, rpc, popped, chain>>

\* router.queue.add(build_chain(tasks))
add_chain(tasks) ==
    /\ rpc = "idle"
    /\ chain = <<>>
    /\ chain' = tasks
    /\ queue' = Add(queue, build_chain(tasks))
    /\ enqueued' = Add(enqueued, build_chain(tasks))
    /\ UNCHANGED <<client, apartRouter, registry, triggers, rpc, popped>>

\* run is called (line 61)
run ==
    /\ rpc = "idle"
    /\ rpc' = "running"
    /\ UNCHANGED <<client, apartRouter, registry, triggers, queue, enqueued, popped, chain>>

\* Mutant of run_iteration: the next tasks of a task are enqueued whether it
\* has a handler or not
run_iteration_Forward ==
    /\ rpc = "running"
    /\ queue # <<>>
    /\ Len(popped) < MaxPops
    /\ LET t == PopLeft(queue)[1]
           rest == PopLeft(queue)[2]
           handler == Get(registry, t.agent, None)
           added == IF handler = None THEN t.next_tasks
                    ELSE OrEmpty(Produced(handler)) \o t.next_tasks
       IN  /\ queue' = Extend_(rest, added)
           /\ enqueued' = enqueued \o added
           /\ popped' = Append(popped, [task |-> t, ran |-> handler # None,
                                        added |-> added])
    /\ UNCHANGED <<client, apartRouter, registry, triggers, rpc, chain>>

\* One iteration of the loop of run (lines 62-70)
run_iteration ==
    /\ rpc = "running"
    /\ queue # <<>>
    /\ Len(popped) < MaxPops
    /\ LET t == PopLeft(queue)[1]
           rest == PopLeft(queue)[2]
           handler == Get(registry, t.agent, None)
           added == IF handler = None THEN <<>>
                    ELSE OrEmpty(Produced(handler)) \o t.next_tasks
       IN  /\ queue' = Extend_(rest, added)
           /\ enqueued' = enqueued \o added
           /\ popped' = Append(popped, [task |-> t, ran |-> handler # None,
                                        added |-> added])
    /\ UNCHANGED <<client, apartRouter, registry, triggers, rpc, chain>>

\* pop returns None: run returns (line 62)
run_return ==
    /\ rpc = "running"
    /\ queue = <<>>
    /\ rpc' = "returned"
    /\ UNCHANGED <<client, apartRouter, registry, triggers, queue, enqueued, popped, chain>>

InitRouter ==
    /\ Init
    /\ API_KEY = "set"
    /\ BASE_ID = "set"

NextRouter ==
    \/ \E name \in AgentNames, handler \in Handlers : register_agent(name, handler)
    \/ \E tr \in TriggerChoices : register_trigger(tr)
    \/ \E event \in Events : submit_event(event)
    \/ \E tasks \in ChainLists : add_chain(tasks)
    \/ run
    \/ run_iteration
    \/ run_return

SpecRouter == InitRouter /\ [][NextRouter]_vars

\* ------------------------------------------------------------------------
\* The tasks the first n iterations of run enqueued
RECURSIVE AddedUpTo(_)
AddedUpTo(n) == IF n = 0 THEN <<>> ELSE AddedUpTo(n - 1) \o popped[n].added

\* C28: run pops the tasks in the order in which they were enqueued: at every
\* moment the tasks popped so far, followed by the tasks waiting, are the
\* tasks enqueued so far, in the order of their enqueueing; the iteration of
\* a task that has a handler enqueues the tasks the handler produced and
\* then the task's next_tasks; when run has returned the queue is empty and
\* each enqueued task was popped exactly once.
C28_FifoOrder ==
    /\ enqueued = [i \in 1..Len(popped) |-> popped[i].task] \o queue
    /\ \A i \in 1..Len(popped) :
          popped[i].ran =>
              popped[i].added = OrEmpty(Produced(registry[popped[i].task.agent]))
                                \o popped[i].task.next_tasks
    /\ LET added == AddedUpTo(Len(popped))
       IN  /\ Len(added) <= Len(enqueued)
           /\ SubSeq(enqueued, Len(enqueued) - Len(added) + 1, Len(enqueued)) = added
    /\ rpc = "returned" =>
          /\ queue = <<>>
          /\ Len(popped) = Len(enqueued)

\* A run that has returned after a task whose handler produced a task and
\* which had a next task, both handled later in this order
C28_Witness ==
    /\ rpc = "returned"
    /\ Len(popped) >= 4
    /\ \E i \in 1..Len(popped) :
          /\ popped[i].ran
          /\ Len(popped[i].added) = 2
          /\ popped[i].added[1].payload = [note |-> "spawned"]
          /\ popped[i].added[2].payload = [step |-> 2]
          /\ \E j \in (i + 1)..(Len(popped) - 1) :
                /\ popped[j].task = popped[i].added[1]
                /\ popped[j + 1].task = popped[i].added[2]
                /\ popped[j].ran
                /\ popped[j + 1].ran

\* ------------------------------------------------------------------------
\* The place in the chain of its first task whose agent has no handler
FirstUnregistered ==
    LET missing == { k \in 1..Len(chain) : chain[k].agent \notin DOMAIN registry }
    IN  IF missing = {} THEN Len(chain) + 1
        ELSE CHOOSE k \in missing : \A l \in missing : k <= l

\* C29: the iteration of a task whose agent has no handler runs nothing and
\* enqueues nothing, its next_tasks included; the iteration of a task whose
\* agent has a handler ends with the task's next_tasks enqueued; of a chain
\* built by build_chain and enqueued by its first task, no task after the
\* first task without a handler is ever popped.
C29_UnregisteredDropped ==
    /\ \A i \in 1..Len(popped) :
          LET t == popped[i].task
              n == Len(popped[i].added)
          IN  IF t.agent \in DOMAIN registry
              THEN /\ popped[i].ran
                   /\ n >= Len(t.next_tasks)
                   /\ SubSeq(popped[i].added, n - Len(t.next_tasks) + 1, n) = t.next_tasks
              ELSE /\ ~popped[i].ran
                   /\ popped[i].added = <<>>
    /\ \A i \in 1..Len(popped), k \in 1..Len(chain) :
          k > FirstUnregistered => popped[i].task.payload # [step |-> k]

\* A chain of three tasks whose second agent has no handler: the run has
\* returned, the first two tasks were popped, the third never was
C29_Witness ==
    /\ rpc = "returned"
    /\ Len(chain) = 3
    /\ FirstUnregistered = 2
    /\ chain[3].agent \in DOMAIN registry
    /\ \E i \in 1..Len(popped) : popped[i].task.payload = [step |-> 1] /\ popped[i].ran
    /\ \E i \in 1..Len(popped) :
          /\ popped[i].task.payload = [step |-> 2]
          /\ popped[i].task.next_tasks # <<>>
          /\ ~popped[i].ran

\* ------------------------------------------------------------------------
\* ScheduledJob and ScheduleManager (src/api/scheduler.py)

MaxClock == 120
MaxAdds == 2
MaxCalls == 3

\* timedelta(hours=hours, minutes=minutes) (line 28), in minutes
Timedelta(hours, minutes) == hours * 60 + minutes

HoursArgs == {-1, 0, 1}
MinutesArgs == {-60, 0, 30}

\* Mutant of Due: a job is run on every tick
Due_Always(now, job) == TRUE

\* now >= self.next_run (line 18)
Due(now, job) == now >= job.next_run

\* Time passes
advance(d) ==
    /\ clock + d <= MaxClock
    /\ clock' = clock + d
    /\ UNCHANGED <<client, apartScheduler, jobs, runs, pendings, adds>>

\* add_cron_job (lines 27-33)
add_cron_job(name, hours, minutes) ==
    /\ Len(adds) < MaxAdds
    /\ LET interval == Timedelta(hours, minutes)
       IN  IF interval <= 0
           THEN /\ adds' = Append(adds, [name |-> name, hours |-> hours,
                                         minutes |-> minutes, raised |-> "ValueError",
                                         jobs |-> Len(jobs)])
                /\ UNCHANGED jobs
           ELSE /\ jobs' = Append(jobs, [name |-> name, interval |-> interval,
                                         next_run |-> clock + interval])
                /\ adds' = Append(adds, [name |-> name, hours |-> hours,
                                         minutes |-> minutes, raised |-> "",
                                         jobs |-> Len(jobs')])
    /\ UNCHANGED <<client, apartScheduler, clock, runs, pendings>>

\* ScheduledJob.tick (lines 17-20): the job after the tick
Tick(job, now) ==
    IF Due(now, job) THEN [job EXCEPT !.next_run = now + job.interval] ELSE job

\* The functions run_pending calls, in the order of the jobs
RECURSIVE Ran(_, _, _)
Ran(js, now, k) ==
    IF k > Len(js) THEN <<>>
    ELSE (IF Due(now, js[k])
          THEN << [job |-> k, at |-> now, due |-> js[k].next_run,
                   call |-> Len(pendings) + 1] >>
          ELSE <<>>)
         \o Ran(js, now, k + 1)

\* run_pending (lines 35-38)
run_pending ==
    /\ Len(pendings) < MaxCalls
    /\ LET now == clock
       IN  /\ jobs' = [k \in 1..Len(jobs) |-> Tick(jobs[k], now)]
           /\ runs' = runs \o Ran(jobs, now, 1)
           /\ pendings' = Append(pendings, now)
    /\ UNCHANGED <<client, apartScheduler, clock, adds>>

InitScheduler ==
    /\ Init
    /\ API_KEY = "set"
    /\ BASE_ID = "set"

NextScheduler ==
    \/ \E d \in {30, 60} : advance(d)
    \/ \E hours \in HoursArgs, minutes \in MinutesArgs :
          add_cron_job("sync", hours, minutes)
    \/ run_pending

SpecScheduler == InitScheduler /\ [][NextScheduler]_vars

\* ------------------------------------------------------------------------
\* C30: a job's function is run in a tick exactly when now >= next_run, and
\* next_run is then now + interval: no function is run before the job's
\* next_run, after a run_pending call no job is due at the time of the call,
\* a job runs at most once per run_pending call, two runs of a job are at
\* least its interval apart, and the next_run of a job that has run is the
\* time of its last run plus its interval; add_cron_job raises ValueError for
\* an interval that is not positive and adds no job then, and adds one job
\* otherwise.
C30_Scheduler ==
    /\ \A i \in 1..Len(runs) :
          /\ runs[i].at >= runs[i].due
          /\ runs[i].at = pendings[runs[i].call]
          /\ \A j \in (i + 1)..Len(runs) :
                runs[i].job = runs[j].job =>
                    /\ runs[i].call # runs[j].call
                    /\ runs[j].at >= runs[i].at + jobs[runs[i].job].interval
    /\ \A k \in 1..Len(jobs) :
          /\ jobs[k].interval > 0
          /\ pendings # <<>> => jobs[k].next_run > pendings[Len(pendings)]
          /\ \A i \in 1..Len(runs) :
                (runs[i].job = k /\ \A j \in (i + 1)..Len(runs) : runs[j].job # k) =>
                    jobs[k].next_run = runs[i].at + jobs[k].interval
    /\ \A i \in 1..Len(adds) :
          LET before == IF i = 1 THEN 0 ELSE adds[i - 1].jobs
          IN  IF adds[i].hours * 60 + adds[i].minutes <= 0
              THEN adds[i].raised = "ValueError" /\ adds[i].jobs = before
              ELSE adds[i].raised = "" /\ adds[i].jobs = before + 1
    /\ Len(jobs) = IF adds = <<>> THEN 0 ELSE adds[Len(adds)].jobs

\* A job of 30 minutes has run twice, in two calls, after a call in which it
\* was not due and an add_cron_job call that was refused
C30_Witness ==
    /\ Len(jobs) = 1
    /\ jobs[1].interval = 30
    /\ Len(pendings) = 3
    /\ Len(runs) = 2
    /\ runs[1].call # runs[2].call
    /\ \E i \in 1..Len(adds) : adds[i].raised = "ValueError"

====
